---- MODULE Spec2Model ----
(***************************************************************************)
(* A model of the DEX pool gatherer: the pool collector                    *)
(* (services/collector.rs), the pool filter (services/filter.rs), the      *)
(* pool cache (services/cache.rs), the arbitrage detector                  *)
(* (services/detector.rs) and the WebSocket connection (handle_socket),    *)
(* as they are driven by main.rs.                                          *)
(*                                                                         *)
(* Amounts in USD are whole numbers; times are whole seconds: `clock` is   *)
(* the monotonic clock (Instant) in seconds since the process started and  *)
(* Epoch0 + clock is the wall clock (chrono::Utc::now().timestamp()).      *)
(***************************************************************************)
EXTENDS Integers, Sequences, FiniteSets, TLC

VARIABLES
    sources,      \* PoolCollector.sources: the ordered list of sources
    symbols,      \* AppState.symbols: the list every collection call is given
    filter,       \* PoolCollector.filter: [min_lp, min_volume]
    permits,      \* PoolCollector.semaphore: the permits available
    call,         \* per caller: the state of its collect_progressive call
    task,         \* per caller: one future per symbol, [pc, src, attempt]:
                  \* where it is, the number of the source it is at and the
                  \* number of the attempt it makes to fetch from it
    net,          \* the providers' network: "up" or "down"
    tokens,       \* the TokenCache the resolver shares with the direct
                  \* sources: symbol -> the chains it has an address on
    fetched,      \* history: the fetch that ended last: its source, how it
                  \* ended, whether it sent a request, the number of
                  \* records it returned and how many passed the filter
    cache,        \* PoolCache.cache: key -> handle (Arc<PoolData>)
    heap,         \* the records behind the handles: handle -> PoolData
    held,         \* the handles a reader got from its last get / get_all,
                  \* each with the record the reader saw when it got it
    clock,        \* Instant::now(), seconds since the process started
    last_cleanup, \* PoolCache.last_cleanup
    cleaner,      \* per caller of cleanup_if_needed: [pc, now]
    latest,       \* history: per (source, chain, pool_address), the last
                  \* record that was passed to PoolCache::insert
    inserts,      \* history: the number of PoolCache::insert calls so far
    flt,          \* a call of PoolFilter::is_valid: [pool, config, result],
                  \* the result << >> before the call returned, <<b>> after
    det,          \* the ArbitrageDetector and the last call of it: the pool
                  \* snapshot and the CEX prices it is given, its threshold
                  \* and out = [op, alerts, divisors, again]: the
                  \* operation, the alerts it returned, the prices it
                  \* divided by and whether the call before it was of the
                  \* same operation (history)
    upbit,        \* UpbitClient.prices: symbol -> CexPrice
    stats,        \* PoolCollector.stats: the four counters of CollectorStats
    peer,         \* another WebSocket connection and its handle_socket loop,
                  \* as ws
    ws            \* a WebSocket connection of main.rs, the state of its
                  \* handle_socket loop: pc, where it is ("idle" in the
                  \* select, "chunks" / "end" in the arm of the update ticker,
                  \* "blocked" while a send with no timeout is pending,
                  \* "closed" once it returned); pools, the snapshot of the
                  \* tick (handles); pos, the number of its records sent;
                  \* sent, every message given to sender.send so far, with
                  \* the tick it is of and whether the send succeeded;
                  \* ticks and pings, the update and heartbeat ticks so far;
                  \* rcvd, every item receiver.next() returned so far

vars == <<sources, symbols, filter, permits, call, task, net, tokens, fetched,
          cache, heap,
          held, clock, last_cleanup, cleaner, latest, inserts, flt, det, upbit,
          stats, peer, ws>>

collectorVars == <<sources, symbols, filter, permits, call, task, net, tokens,
                   fetched>>
cacheVars == <<cache, heap, held, clock, last_cleanup, cleaner, latest, inserts>>
appVars == <<flt, det, upbit, stats, peer, ws>>

-----------------------------------------------------------------------------
(* Program constants *)

\* Semaphore::new(10)
PERMITS == 10
\* .buffer_unordered(5)
BUFFER == 5
\* PoolCache::new(120)
TTL_SECS == 120
\* last_cleanup.elapsed() < Duration::from_secs(60)
CLEANUP_INTERVAL == 60
\* pools.chunks(50)
CHUNK == 50

(* Bounds of the model *)

\* the collector is run over the first MaxSources entries of its source list
MaxSources == 2
\* the longest symbol list of the data specification
MaxSymbols == 2
\* the longest pool list one fetch returns
MaxPools == 2
\* the wall clock (seconds since the epoch) when the process started
Epoch0 == 1700000000
\* the clock stops advancing at MaxClock
MaxClock == 180
\* the clock advances in steps of TickSecs
TickSecs == 60
\* the cache specification stops inserting after MaxInserts inserts
MaxInserts == 3
\* the longest pool snapshot the detector is applied to
MaxDetPools == 3
\* the most pools the cache holds when a connection is served
MaxSnapshot == 101
\* a connection is followed for MaxWsTicks update ticks and MaxPings
\* heartbeat ticks
MaxWsTicks == 2
MaxPings == 1
MaxFrames == 2
MaxPeerTicks == 1
MaxConnWrites == 1

Min(a, b) == IF a <= b THEN a ELSE b
Max(a, b) == IF a >= b THEN a ELSE b

-----------------------------------------------------------------------------
(* The sources *)

\* A list in which the token resolver comes after the aggregators that use
\* what it resolves.
ActiveSourcesResolverLast ==
    << "GeckoTerminal", "DexScreenerSource", "KyberSwapDirectSource",
       "OpenOceanDirectSource", "ParaSwapDirectSource",
       "MatchaTokenResolver", "MatchaSource" >>

\* The seven sources of PoolCollector::new, in list order.
ActiveSources ==
    << "GeckoTerminal", "DexScreenerSource", "MatchaTokenResolver",
       "KyberSwapDirectSource", "OpenOceanDirectSource",
       "ParaSwapDirectSource", "MatchaSource" >>

\* The `source` field a provider stamps on its records.
SourceTag(s) ==
    CASE s = "GeckoTerminal"         -> "geckoterminal"
      [] s = "DexScreenerSource"     -> "dexscreener"
      [] s = "MatchaTokenResolver"   -> "matcha"
      [] s = "KyberSwapDirectSource" -> "kyberswap"
      [] s = "OpenOceanDirectSource" -> "openocean"
      [] s = "ParaSwapDirectSource"  -> "paraswap"
      [] OTHER                       -> "matcha"

\* The `chain` values a provider stamps on its records.
SourceChains(s) ==
    CASE s = "GeckoTerminal"     -> {"multi"}
      [] s = "DexScreenerSource" -> {"ethereum"}
      [] OTHER                   -> {"ethereum", "bsc"}

\* The `dex` field a provider stamps on its records.
SourceDex(s) ==
    CASE s = "GeckoTerminal"       -> "unknown"
      [] s = "MatchaTokenResolver" -> "matcha"
      [] s = "MatchaSource"        -> "matcha"
      [] OTHER                     -> SourceTag(s)

\* (price_usd, lp_reserve_usd, volume_24h) a provider can report.  The token
\* resolvers report 0.0, 0.0, 0.0; the aggregators a price and no liquidity.
SourceQuotes(s) ==
    CASE s = "GeckoTerminal" ->
            { <<1, 0, 0>>, <<0, 50000, 20000>>, <<0, 40, 0>> }
      [] s = "MatchaTokenResolver" -> { <<0, 0, 0>> }
      [] s = "MatchaSource"        -> { <<0, 0, 0>> }
      [] s = "DexScreenerSource"   -> { <<1, 0, 0>>, <<2, 0, 0>> }
      [] OTHER                     -> { <<1, 0, 0>> }

\* The pool addresses a provider can report.
PoolAddresses == { "0xA" }

\* PoolData::new: the record stamped with the wall clock.
PoolData(symbol, chain, dex, pool_address, quote, source, now) ==
    [ symbol |-> symbol, chain |-> chain, dex |-> dex,
      pool_address |-> pool_address, price_usd |-> quote[1],
      lp_reserve_usd |-> quote[2], volume_24h |-> quote[3],
      source |-> source, timestamp |-> Epoch0 + now ]

\* The records fetch_pools of source s can build for a symbol at time now.
SourcePools(s, symbol, now) ==
    { PoolData(symbol, ch, SourceDex(s), a, q, SourceTag(s), now) :
        ch \in SourceChains(s), a \in PoolAddresses, q \in SourceQuotes(s) }

\* Whether fetch_pools of source s has a path returning Err.
SourceCanFail(s) == s \in { "GeckoTerminal", "DexScreenerSource", "MatchaSource" }

\* All sequences over S of length at most n.
RECURSIVE SeqsUpTo(_, _)
SeqsUpTo(S, n) ==
    IF n = 0 THEN { <<>> }
    ELSE LET shorter == SeqsUpTo(S, n - 1)
         IN  shorter \cup { Append(q, x) : q \in shorter, x \in S }

\* new_token_cache(): no address yet; and no fetch has ended yet.
NoTokens == << >>
NoFetch == [src |-> "none", kind |-> "none", asked |-> FALSE, pools |-> 0,
            valid |-> 0]

\* The sources that look the token's address up in the TokenCache.
DirectSources ==
    { "KyberSwapDirectSource", "OpenOceanDirectSource", "ParaSwapDirectSource" }

\* The chains the TokenCache has an address of the symbol on.
KnownChains(symbol) == IF symbol \in DOMAIN tokens THEN tokens[symbol] ELSE {}

\* Whether fetch_pools of source s sends a request for the symbol: a direct
\* source skips every chain it finds no address for (`None => continue`),
\* the resolver returns what the TokenCache holds for the symbol, if it
\* holds something.
Asks(s, symbol) ==
    CASE s \in DirectSources        -> KnownChains(symbol) # {}
      [] s = "MatchaTokenResolver"  -> symbol \notin DOMAIN tokens
      [] OTHER                      -> TRUE

\* The lists of records fetch_pools of source s can return for a symbol: a
\* direct source has records on the chains it has an address for only, the
\* resolver one record per chain (of what it has cached, if it sent no
\* request).
SourceLists(s, symbol, now) ==
    LET all == SeqsUpTo(SourcePools(s, symbol, now), MaxPools)
        chains(l) == { l[i].chain : i \in DOMAIN l }
    IN  CASE s \in DirectSources ->
               { l \in all : chains(l) \subseteq KnownChains(symbol) }
          [] s = "MatchaTokenResolver" ->
               { l \in all :
                   /\ Cardinality(chains(l)) = Len(l)
                   /\ ~Asks(s, symbol) => chains(l) = KnownChains(symbol) }
          [] OTHER -> all

\* A fetch without the timeout around it: while no provider answers the
\* request has no outcome.
FetchOutcomesNoTimeout(s, symbol, now) ==
    IF net = "down" THEN {}
    ELSE { [kind |-> "ok", pools |-> l] : l \in SourceLists(s, symbol, now) }

\* What tokio::time::timeout(10 s, source.fetch_pools(symbol)) can yield:
\* Ok(Ok(pools)), Ok(Err(e)) or Err(elapsed).  While the network is down no
\* provider answers and every attempt runs into the timeout; a fetch that
\* sends no request returns at once.
FetchOutcomes(s, symbol, now) ==
    IF ~Asks(s, symbol)
    THEN { [kind |-> "ok", pools |-> l] : l \in SourceLists(s, symbol, now) }
    ELSE IF net = "down"
    THEN { [kind |-> "timeout", pools |-> <<>>] }
    ELSE { [kind |-> "timeout", pools |-> <<>>] }
         \cup { [kind |-> "err", pools |-> <<>>] : x \in
                    IF SourceCanFail(s) THEN {1} ELSE {} }
         \cup { [kind |-> "ok", pools |-> l] :
                    l \in SourceLists(s, symbol, now) }

\* The TokenCache after a fetch of source s ended with outcome o: resolve
\* caches the addresses it got from its request, if it got some.
TokensAfter(s, symbol, o) ==
    IF s = "MatchaTokenResolver" /\ Asks(s, symbol) /\ o.kind = "ok"
                                /\ o.pools # << >>
    THEN [ y \in DOMAIN tokens \cup {symbol} |->
             IF y = symbol THEN { o.pools[i].chain : i \in DOMAIN o.pools }
             ELSE tokens[y] ]
    ELSE tokens

-----------------------------------------------------------------------------
(* The pool filter *)

\* PoolFilter::is_valid
is_valid(f, pool) ==
    IF pool.price_usd > 0 THEN TRUE
    ELSE IF pool.lp_reserve_usd >= f.min_lp
         THEN pool.volume_24h >= f.min_volume
         ELSE \* tradeable = lp_reserve_usd * 0.02; tradeable >= 100.0
              /\ pool.lp_reserve_usd * 2 >= 100 * 100
              /\ pool.volume_24h >= f.min_volume

-----------------------------------------------------------------------------
(* The pool cache *)

\* A key that leaves the source out.
PoolKeyNoSource(pool) == pool.chain \o ":" \o pool.pool_address

\* format!("{}:{}:{}", pool.source, pool.chain, pool.pool_address)
PoolKey(pool) == pool.source \o ":" \o pool.chain \o ":" \o pool.pool_address

\* The handles something still refers to: the map or a reader.
Referenced(c, hd) == { c[k] : k \in DOMAIN c } \cup DOMAIN hd

\* Arc::new: a fresh allocation.  An allocation is named by the key it is
\* made for and a number that no live allocation of that key has.
NewHandle(h, key) ==
    LET used == { n \in 1..(Cardinality(DOMAIN h) + 1) : <<key, n>> \in DOMAIN h }
    IN  << key, CHOOSE n \in 1..(Cardinality(DOMAIN h) + 1) :
                   /\ n \notin used
                   /\ \A m \in 1..(n - 1) : m \in used >>

\* Dropping the last Arc of a record frees it.
Collect(c, h, hd) == [ n \in (DOMAIN h \cap Referenced(c, hd)) |-> h[n] ]

\* An insert that keeps the entry a key already has
\* (entry(key).or_insert(..)).
CacheInsertIfAbsent(ch, key, pool) ==
    LET c == ch[1]
        h == ch[2]
        n == NewHandle(h, key)
    IN  IF key \in DOMAIN c THEN ch
        ELSE << [ k \in DOMAIN c \cup {key} |-> IF k = key THEN n ELSE c[k] ],
                [ m \in DOMAIN h \cup {n} |-> IF m = n THEN pool ELSE h[m] ] >>

\* An insert that writes the record of a stored key in place, through the
\* handle the key has.
CacheInsertInPlace(ch, key, pool) ==
    LET c == ch[1]
        h == ch[2]
        n == NewHandle(h, key)
    IN  IF key \in DOMAIN c
        THEN << c, [h EXCEPT ![c[key]] = pool] >>
        ELSE << [ k \in DOMAIN c \cup {key} |-> IF k = key THEN n ELSE c[k] ],
                [ m \in DOMAIN h \cup {n} |-> IF m = n THEN pool ELSE h[m] ] >>

\* PoolCache::insert on the pair <<map, heap>>: the key is bound to a fresh
\* Arc of the record; the Arc the key was bound to is dropped.
CacheInsert(ch, key, pool) ==
    LET c == ch[1]
        h == ch[2]
        n == NewHandle(h, key)
        c2 == [ k \in DOMAIN c \cup {key} |-> IF k = key THEN n ELSE c[k] ]
        h2 == [ m \in DOMAIN h \cup {n} |-> IF m = n THEN pool ELSE h[m] ]
    IN  << c2, Collect(c2, h2, held) >>

\* A loop that stops after the first pool.
InsertFirstOnly(ch, pools) ==
    IF pools = <<>> THEN ch
    ELSE CacheInsert(ch, PoolKey(Head(pools)), Head(pools))

\* for pool in filtered { cache.insert(key, pool) }
RECURSIVE InsertAll(_, _)
InsertAll(ch, pools) ==
    IF pools = <<>> THEN ch
    ELSE InsertAll(CacheInsert(ch, PoolKey(Head(pools)), Head(pools)), Tail(pools))

\* The history of the records passed to insert, kept per
\* (source, chain, pool_address).
Identity(pool) == << pool.source, pool.chain, pool.pool_address >>

RECURSIVE Recorded(_, _)
Recorded(lt, pools) ==
    IF pools = <<>> THEN lt
    ELSE LET p == Head(pools)
         IN  Recorded([ t \in DOMAIN lt \cup {Identity(p)} |->
                          IF t = Identity(p) THEN p ELSE lt[t] ],
                      Tail(pools))

\* PoolCache::get: the record behind the handle of a key, or "none"
CacheGet(key) == IF key \in DOMAIN cache THEN heap[cache[key]] ELSE "none"

\* PoolCache::get_all: the records behind the handles of all the values
CacheGetAll == { heap[cache[k]] : k \in DOMAIN cache }

\* PoolCache::len
CacheLen == Cardinality(DOMAIN cache)

-----------------------------------------------------------------------------
(* The collector: collect_progressive *)

Callers == DOMAIN call

IdleCall == [ pc |-> "idle", successful |-> 0, failed |-> 0, total_pools |-> 0 ]

\* The futures of a call that completed.
DoneCount(c) == Cardinality({ i \in DOMAIN task[c] : task[c][i].pc = "done" })

\* buffer_unordered(5) keeps at most five futures of the stream in progress,
\* taken in stream order: future i is polled once fewer than five of the
\* futures before it are unfinished.
InBuffer(c, i) ==
    Cardinality({ j \in 1..(i - 1) : task[c][j].pc # "done" }) < BUFFER

\* The fetches in flight.
InFlight == { <<c, i>> \in Callers \X (1..Len(symbols)) :
                 i \in DOMAIN task[c] /\ task[c][i].pc = "fetch" }

\* A semaphore that hands out permits it does not have.
CanAcquireUnchecked == TRUE

\* semaphore.acquire() can complete.
CanAcquire == permits > 0

\* A caller enters collect_progressive(&state.symbols): the counters are
\* created at 0 and the stream of futures is built, none polled yet.
StartCall(c) ==
    /\ call[c].pc = "idle"
    /\ call' = [call EXCEPT ![c] = [IdleCall EXCEPT !.pc = "running"]]
    /\ task' = [task EXCEPT ![c] =
                   [ i \in 1..Len(symbols) |-> [pc |-> "acquire", src |-> 0, attempt |-> 0] ]]
    /\ UNCHANGED <<sources, symbols, filter, permits, net, tokens, fetched,
                   cacheVars>>
    /\ UNCHANGED appVars

\* A polled future gets its permit and starts the fetch to the first source.
Acquire(c, i) ==
    /\ call[c].pc = "running"
    /\ i \in DOMAIN task[c]
    /\ task[c][i].pc = "acquire"
    /\ InBuffer(c, i)
    /\ CanAcquire
    /\ permits' = permits - 1
    /\ task' = [task EXCEPT ![c][i] = [pc |-> "fetch", src |-> 1, attempt |-> 1]]
    /\ UNCHANGED <<sources, symbols, filter, call, net, tokens, fetched,
                   cacheVars>>
    /\ UNCHANGED appVars

\* A timeout arm that forgets to count the failure.
CountedTimeoutLost(cl, o, n) ==
    IF o.kind = "ok"
    THEN [cl EXCEPT !.successful = @ + 1, !.total_pools = @ + n]
    ELSE IF o.kind = "err" THEN [cl EXCEPT !.failed = @ + 1] ELSE cl

\* A match arm that counts the records the source returned.
CountedReturned(cl, o, n) ==
    IF o.kind = "ok"
    THEN [cl EXCEPT !.successful = @ + 1, !.total_pools = @ + Len(o.pools)]
    ELSE [cl EXCEPT !.failed = @ + 1]

\* A match arm that takes an answer without a usable record for a failure.
CountedEmptyFailed(cl, o, n) ==
    IF o.kind = "ok" /\ n > 0
    THEN [cl EXCEPT !.successful = @ + 1, !.total_pools = @ + n]
    ELSE [cl EXCEPT !.failed = @ + 1]

\* The counters after one fetch attempt ended with outcome o, n of its pools
\* having passed the filter: the three arms of the match.
Counted(cl, o, n) ==
    IF o.kind = "ok"
    THEN [cl EXCEPT !.successful = @ + 1, !.total_pools = @ + n]
    ELSE [cl EXCEPT !.failed = @ + 1]

\* A loop that fetches again from the same source after a failure, up to
\* three attempts.
AfterFetchRetry(t, o) ==
    IF o.kind # "ok" /\ t.attempt < 3
    THEN [pc |-> "fetch", src |-> t.src, attempt |-> t.attempt + 1]
    ELSE IF t.src < Len(sources)
         THEN [pc |-> "fetch", src |-> t.src + 1, attempt |-> 1]
         ELSE [pc |-> "done", src |-> t.src, attempt |-> t.attempt]

\* A loop over the sources that a failed fetch breaks out of.
AfterFetchBreak(t, o) ==
    IF o.kind = "ok" /\ t.src < Len(sources)
    THEN [pc |-> "fetch", src |-> t.src + 1, attempt |-> 1]
    ELSE [pc |-> "done", src |-> t.src, attempt |-> t.attempt]

\* Where future t goes after its fetch ended with outcome o: the for loop
\* goes on to the next source with a first attempt, whatever the outcome,
\* or the future ends, where the permit is dropped.
AfterFetch(t, o) ==
    IF t.src < Len(sources)
    THEN [pc |-> "fetch", src |-> t.src + 1, attempt |-> 1]
    ELSE [pc |-> "done", src |-> t.src, attempt |-> t.attempt]

\* A permit that is given back only by a future whose last fetch succeeded.
ReleasedOnSuccess(p, next, o) ==
    IF next.pc = "done" /\ o.kind = "ok" THEN p + 1 ELSE p

\* drop(permit) at the end of the future: the permit goes back to the
\* semaphore when the loop over the sources is through, whatever the
\* outcome o of the last fetch.
Released(p, next, o) == IF next.pc = "done" THEN p + 1 ELSE p

\* An Ok arm that inserts what the source returned as it is.
FilteredNothing(f, pools) == pools

\* pools.into_iter().filter(|p| filter.is_valid(p)).collect()
Filtered(f, pools) == SelectSeq(pools, LAMBDA p : is_valid(f, p))

\* The fetch in flight of future i ends (one arm of the match on the
\* timeout's result runs) and the loop over the sources goes on.
FetchComplete(c, i) ==
    /\ call[c].pc = "running"
    /\ i \in DOMAIN task[c]
    /\ task[c][i].pc = "fetch"
    /\ \E o \in FetchOutcomes(sources[task[c][i].src], symbols[i], clock) :
         LET filtered == Filtered(filter, o.pools)
             ch == InsertAll(<<cache, heap>>, filtered)
             next == AfterFetch(task[c][i], o)
         IN  /\ cache' = ch[1]
             /\ heap' = ch[2]
             /\ latest' = Recorded(latest, filtered)
             /\ inserts' = inserts + Len(filtered)
             /\ call' = [call EXCEPT ![c] = Counted(@, o, Len(filtered))]
             /\ task' = [task EXCEPT ![c][i] = next]
             /\ permits' = Released(permits, next, o)
             /\ tokens' = TokensAfter(sources[task[c][i].src], symbols[i], o)
             /\ fetched' = [src |-> sources[task[c][i].src], kind |-> o.kind,
                            asked |-> Asks(sources[task[c][i].src], symbols[i]),
                            pools |-> Len(o.pools), valid |-> Len(filtered)]
    /\ UNCHANGED <<sources, symbols, filter, net, held, clock, last_cleanup,
                   cleaner>>
    /\ UNCHANGED appVars

\* A return that reports a failure when there was nothing to collect.
ReturnEmptyFailed(c) ==
    /\ call[c].pc = "running"
    /\ \A i \in DOMAIN task[c] : task[c][i].pc = "done"
    /\ call' = [call EXCEPT ![c].pc = "returned",
                            ![c].failed = IF symbols = << >> THEN 1 ELSE @]
    /\ UNCHANGED <<sources, symbols, filter, permits, task, net, tokens,
                   fetched, cacheVars>>
    /\ UNCHANGED appVars

\* Every future of the stream completed: collect_progressive returns
\* CollectorResult { total, successful, failed }.
Return(c) ==
    /\ call[c].pc = "running"
    /\ \A i \in DOMAIN task[c] : task[c][i].pc = "done"
    /\ call' = [call EXCEPT ![c].pc = "returned"]
    /\ UNCHANGED <<sources, symbols, filter, permits, task, net, tokens,
                   fetched, cacheVars>>
    /\ UNCHANGED appVars

-----------------------------------------------------------------------------
(* The arbitrage detector *)
(* Prices are whole numbers of USD; the threshold is kept in thousandths    *)
(* (30 is the 0.03 of config.toml); diff_pct is kept as the fraction         *)
(* <<numerator, denominator>> the code divides.                              *)

\* The symbols of a snapshot, the keys of by_symbol.
SymbolsOf(pools) == { pools[i].symbol : i \in DOMAIN pools }

\* by_symbol[symbol]: the pools of the symbol in the order of the snapshot.
Group(pools, symbol) == SelectSeq(pools, LAMBDA q : q.symbol = symbol)

\* min_pool after the loop of lines 29-39: the loop starts from the first
\* pool and replaces min_pool only by a pool with a smaller price, so it ends
\* with the first of the pools that have the smallest price.
ScanMin(g) ==
    g[CHOOSE i \in 1..Len(g) :
          /\ \A j \in 1..Len(g) : g[i].price_usd <= g[j].price_usd
          /\ \A j \in 1..(i - 1) : g[j].price_usd > g[i].price_usd]

\* max_pool after the loop of lines 29-39: the first of the pools that have
\* the largest price.
ScanMax(g) ==
    g[CHOOSE i \in 1..Len(g) :
          /\ \A j \in 1..Len(g) : g[i].price_usd >= g[j].price_usd
          /\ \A j \in 1..(i - 1) : g[j].price_usd < g[i].price_usd]

\* format!("{}:{}", pool.dex, pool.pool_address)
DexLabel(pool) == pool.dex \o ":" \o pool.pool_address

\* A spread taken relative to the higher price.
DiffPctOfHigh(low, high) == << (high - low) * 100, high >>

\* (high - low) / low * 100.0
DiffPct(low, high) == << (high - low) * 100, low >>

\* ArbitrageAlert::from_pools
from_pools(low, high, now) ==
    [ symbol |-> low.symbol, arb_type |-> "DexToDex",
      low_price |-> low.price_usd, low_source |-> DexLabel(low),
      high_price |-> high.price_usd, high_source |-> DexLabel(high),
      diff_pct |-> DiffPct(low.price_usd, high.price_usd),
      timestamp |-> Epoch0 + now ]

\* A comparison with the threshold that leaves equality out.
SpreadAbove(low, high, thr) == (high - low) * 1000 > thr * low

\* (high - low) / low >= threshold, for low > 0
SpreadAtLeast(low, high, thr) == (high - low) * 1000 >= thr * low

\* A length check that lets a group of one pool through.
TooFewNone(g) == Len(g) < 1

\* symbol_pools.len() < 2
TooFew(g) == Len(g) < 2

\* A guard that lets a price of zero through.
NoPriceNegativeOnly(price) == price < 0

\* price_usd <= 0.0
NoPrice(price) == price <= 0

\* What the body of the loop over by_symbol does for one group: the alerts
\* it pushes (none or one) and the prices it divides by.
GroupPass(g, thr, now) ==
    IF TooFew(g) THEN [alerts |-> << >>, divisors |-> {}]
    ELSE LET min_pool == ScanMin(g)
             max_pool == ScanMax(g)
         IN  IF NoPrice(min_pool.price_usd)
             THEN [alerts |-> << >>, divisors |-> {}]
             ELSE IF SpreadAtLeast(min_pool.price_usd, max_pool.price_usd, thr)
                  THEN [alerts |-> << from_pools(min_pool, max_pool, now) >>,
                        divisors |-> {min_pool.price_usd}]
                  ELSE [alerts |-> << >>, divisors |-> {min_pool.price_usd}]

\* The orders in which a HashMap can be iterated: all of them.
RECURSIVE Orders(_)
Orders(S) ==
    IF S = {} THEN { << >> }
    ELSE UNION { { <<x>> \o o : o \in Orders(S \ {x}) } : x \in S }

\* The loop over by_symbol, the groups taken in the order `order`.
RECURSIVE DexDexPass(_, _, _, _)
DexDexPass(pools, order, thr, now) ==
    IF order = << >> THEN [alerts |-> << >>, divisors |-> {}]
    ELSE LET one == GroupPass(Group(pools, Head(order)), thr, now)
             rest == DexDexPass(pools, Tail(order), thr, now)
         IN  [alerts |-> one.alerts \o rest.alerts,
              divisors |-> one.divisors \cup rest.divisors]

\* detect_dex_dex: what it can return.
detect_dex_dex(pools, thr, now) ==
    { DexDexPass(pools, order, thr, now) : order \in Orders(SymbolsOf(pools)) }

\* cex_map: the last price of the list for each symbol.
CexMap(cex) ==
    [ sym \in { cex[i].symbol : i \in DOMAIN cex } |->
        LET last == CHOOSE i \in DOMAIN cex :
                        /\ cex[i].symbol = sym
                        /\ \A j \in DOMAIN cex : cex[j].symbol = sym => j <= i
        IN  cex[last] ]

\* The two sides with the DEX side always put low.
DexCexSidesDexLow(pool, c) ==
    [ low |-> Min(pool.price_usd, c.price_usd), low_source |-> DexLabel(pool),
      high |-> Max(pool.price_usd, c.price_usd), high_source |-> "upbit" ]

\* (low, high, low_source, high_source) of lines 69-77
DexCexSides(pool, c) ==
    IF pool.price_usd < c.price_usd
    THEN [ low |-> pool.price_usd, low_source |-> DexLabel(pool),
           high |-> c.price_usd, high_source |-> "upbit" ]
    ELSE [ low |-> c.price_usd, low_source |-> "upbit",
           high |-> pool.price_usd, high_source |-> DexLabel(pool) ]

\* What the body of the loop over the pools does for one pool.
PoolPass(pool, cex_map, thr, now) ==
    IF pool.symbol \notin DOMAIN cex_map THEN [alerts |-> << >>, divisors |-> {}]
    ELSE LET c == cex_map[pool.symbol]
         IN  IF NoPrice(pool.price_usd) \/ NoPrice(c.price_usd)
             THEN [alerts |-> << >>, divisors |-> {}]
             ELSE LET side == DexCexSides(pool, c)
                  IN  IF SpreadAtLeast(side.low, side.high, thr)
                      THEN [alerts |-> << [ symbol |-> pool.symbol,
                                            arb_type |-> "DexToCex",
                                            low_price |-> side.low,
                                            low_source |-> side.low_source,
                                            high_price |-> side.high,
                                            high_source |-> side.high_source,
                                            diff_pct |-> DiffPct(side.low, side.high),
                                            timestamp |-> Epoch0 + now ] >>,
                            divisors |-> {side.low}]
                      ELSE [alerts |-> << >>, divisors |-> {side.low}]

\* detect_dex_cex: the loop over the pools from index i on.
RECURSIVE DexCexPass(_, _, _, _, _)
DexCexPass(pools, i, cex_map, thr, now) ==
    IF i > Len(pools) THEN [alerts |-> << >>, divisors |-> {}]
    ELSE LET one == PoolPass(pools[i], cex_map, thr, now)
             rest == DexCexPass(pools, i + 1, cex_map, thr, now)
         IN  [alerts |-> one.alerts \o rest.alerts,
              divisors |-> one.divisors \cup rest.divisors]

\* detect_dex_cex
detect_dex_cex(pools, cex, thr, now) == DexCexPass(pools, 1, CexMap(cex), thr, now)

\* UpbitClient::get_all_prices: the prices of the map, in an order the
\* DashMap chooses.
get_all_prices(prices) ==
    { [ i \in 1..Len(o) |-> prices[o[i]] ] : o \in Orders(DOMAIN prices) }

\* get_arbitrage of main.rs, from its two snapshots on: the DEX-DEX alerts
\* of the pools, extended by their DEX-CEX alerts against the CEX prices.
get_arbitrage(pools, cex_prices, thr, now) ==
    { r.alerts \o detect_dex_cex(pools, cex_prices, thr, now).alerts :
        r \in detect_dex_dex(pools, thr, now) }

-----------------------------------------------------------------------------
(* The pool cache: its operations as actions *)

\* u64::saturating_sub
SatSub(a, b) == IF a >= b THEN a - b ELSE 0

\* The age the closure of cache.retain computes for a record, the scan
\* having taken `now` at its start:
\*   now.duration_since(Instant::now() - Duration::from_secs(
\*       now.elapsed().as_secs().saturating_sub(pool.timestamp as u64)))
\* Instant::now() is the clock; duration_since is 0 for a later instant; the
\* timestamps here are not negative, so `as u64` leaves them as they are.
RetainAge(now, pool) ==
    LET back == SatSub(clock - now, pool.timestamp)
        then == clock - back
    IN  Max(0, now - then)

\* A closure that keeps the expired records instead of the live ones.
RetainedInverted(now, pool) == RetainAge(now, pool) >= TTL_SECS

\* The closure of cache.retain: the record is kept.
Retained(now, pool) == RetainAge(now, pool) < TTL_SECS

\* A check of the interval that never finds the last scan too recent.
CleanupNeverTooSoon == clock - last_cleanup < 0

\* last_cleanup.elapsed() < Duration::from_secs(60)
CleanupTooSoon == clock - last_cleanup < CLEANUP_INTERVAL

\* The records the collector passes to insert in the cache specification:
\* the pools of the two aggregators that report the pools of a route, which
\* passed the filter.
CacheWriters == { "KyberSwapDirectSource", "ParaSwapDirectSource" }

CachePools(now) ==
    { p \in UNION { SourcePools(s, "ETH", now) : s \in CacheWriters } :
        is_valid(filter, p) }

\* cache.insert(key, pool) as the collector calls it (collector.rs 135-136).
Insert(pool) ==
    /\ inserts < MaxInserts
    /\ LET ch == CacheInsert(<<cache, heap>>, PoolKey(pool), pool)
       IN  /\ cache' = ch[1]
           /\ heap' = ch[2]
    /\ latest' = Recorded(latest, <<pool>>)
    /\ inserts' = inserts + 1
    /\ UNCHANGED <<collectorVars, held, clock, last_cleanup, cleaner>>
    /\ UNCHANGED appVars

\* A reader calls get(key) and keeps the handle; the handles of its earlier
\* read are dropped.
ReadGet(key) ==
    /\ held' = IF key \in DOMAIN cache
               THEN [ h \in {cache[key]} |-> heap[h] ]
               ELSE << >>
    /\ heap' = Collect(cache, heap, held')
    /\ UNCHANGED <<collectorVars, cache, clock, last_cleanup, cleaner, latest,
                   inserts>>
    /\ UNCHANGED appVars

\* A reader calls get_all() and keeps the handles.
ReadGetAll ==
    /\ held' = [ h \in { cache[k] : k \in DOMAIN cache } |-> heap[h] ]
    /\ heap' = Collect(cache, heap, held')
    /\ UNCHANGED <<collectorVars, cache, clock, last_cleanup, cleaner, latest,
                   inserts>>
    /\ UNCHANGED appVars

\* Time passes.
Tick ==
    /\ clock + TickSecs <= MaxClock
    /\ clock' = clock + TickSecs
    /\ UNCHANGED <<collectorVars, cache, heap, held, last_cleanup, cleaner,
                   latest, inserts>>
    /\ UNCHANGED appVars

\* The two locks of PoolCache.  A task is inside get, get_all or len
\* between taking the read lock of the map and releasing it, inside insert
\* between taking the write lock of the map and releasing it, and holds the
\* write lock of last_cleanup from the first line of cleanup_if_needed to
\* its end.
MapReads == { "get", "get_all", "len" }
MapWrites == { "insert" }
ReadsMap(q) == cleaner[q].pc \in MapReads
WritesMap(q) == cleaner[q].pc \in MapWrites
HoldsLastCleanup(q) == cleaner[q].pc = "scan"

\* A len that looks at the time of the last scan while it holds the map.
ThenTakesLastCleanup(op) == IF op = "len" THEN "last_cleanup" ELSE "none"

\* The lock an operation on the map takes while it holds the lock of the
\* map: get, insert, get_all and len take no other lock.
ThenTakes(op) == "none"

\* A task enters get, insert, get_all or len: it takes the lock of the map,
\* the read lock once no writer holds it, the write lock once nobody does.
CacheCallBegin(p, op) ==
    /\ cleaner[p].pc = "idle"
    /\ \A q \in DOMAIN cleaner : ~WritesMap(q)
    /\ op \in MapWrites => \A q \in DOMAIN cleaner : ~ReadsMap(q)
    /\ op \in MapWrites => inserts < MaxInserts
    /\ cleaner' = [cleaner EXCEPT ![p] = [pc |-> op, now |-> 0]]
    /\ UNCHANGED <<collectorVars, cache, heap, held, clock, last_cleanup,
                   latest, inserts>>
    /\ UNCHANGED appVars

\* The task inside get, insert, get_all or len does its work on the map,
\* releases the lock and returns; `pools` are the records there are to
\* insert or to look up.
CacheCallEnd(p, pools) ==
    /\ cleaner[p].pc \in MapReads \cup MapWrites
    /\ ThenTakes(cleaner[p].pc) = "last_cleanup" =>
          \A q \in DOMAIN cleaner : ~HoldsLastCleanup(q)
    /\ cleaner' = [cleaner EXCEPT ![p] = [pc |-> "idle", now |-> 0]]
    /\ CASE cleaner[p].pc = "insert" ->
              \E pool \in pools :
                  LET ch == CacheInsert(<<cache, heap>>, PoolKey(pool), pool)
                  IN  /\ cache' = ch[1]
                      /\ heap' = ch[2]
                      /\ latest' = Recorded(latest, <<pool>>)
                      /\ inserts' = inserts + 1
                      /\ UNCHANGED held
         [] cleaner[p].pc = "get" ->
              \E pool \in pools :
                  /\ held' = IF PoolKey(pool) \in DOMAIN cache
                             THEN [ h \in {cache[PoolKey(pool)]} |-> heap[h] ]
                             ELSE << >>
                  /\ heap' = Collect(cache, heap, held')
                  /\ UNCHANGED <<cache, latest, inserts>>
         [] cleaner[p].pc = "get_all" ->
              /\ held' = [ h \in { cache[k] : k \in DOMAIN cache } |-> heap[h] ]
              /\ heap' = Collect(cache, heap, held')
              /\ UNCHANGED <<cache, latest, inserts>>
         [] cleaner[p].pc = "len" ->
              UNCHANGED <<cache, heap, held, latest, inserts>>
    /\ UNCHANGED <<collectorVars, clock, last_cleanup>>
    /\ UNCHANGED appVars

\* cleanup_if_needed, lines 42-47: the caller takes the write lock of
\* last_cleanup; if the last scan is less than 60 s ago it returns (and the
\* lock is released), otherwise it takes `now` and goes on to the scan.
CleanupBegin(p) ==
    /\ cleaner[p].pc = "idle"
    /\ \A q \in DOMAIN cleaner : ~HoldsLastCleanup(q)
    /\ cleaner' = IF CleanupTooSoon THEN cleaner
                  ELSE [cleaner EXCEPT ![p] = [pc |-> "scan", now |-> clock]]
    /\ UNCHANGED <<collectorVars, cache, heap, held, clock, last_cleanup,
                   latest, inserts>>
    /\ UNCHANGED appVars

\* cleanup_if_needed, lines 48-65: under the write lock of the map the
\* records the closure keeps are retained, last_cleanup becomes `now` and
\* both locks are released.
CleanupScan(p) ==
    /\ cleaner[p].pc = "scan"
    /\ \A q \in DOMAIN cleaner : ~ReadsMap(q) /\ ~WritesMap(q)
    /\ LET kept == { k \in DOMAIN cache : Retained(cleaner[p].now, heap[cache[k]]) }
           c2 == [ k \in kept |-> cache[k] ]
       IN  /\ cache' = c2
           /\ heap' = Collect(c2, heap, held)
    /\ last_cleanup' = cleaner[p].now
    /\ cleaner' = [cleaner EXCEPT ![p] = [pc |-> "idle", now |-> 0]]
    /\ UNCHANGED <<collectorVars, held, clock, latest, inserts>>
    /\ UNCHANGED appVars

-----------------------------------------------------------------------------
(* The WebSocket connection: handle_socket of main.rs *)

Reverse(q) == [ i \in 1..Len(q) |-> q[Len(q) + 1 - i] ]

\* The handles there can be: of the pools a collection left in the cache
\* and of the pools written since, in one order.
HandleOrder ==
    [ i \in 1..MaxSnapshot |-> << "geckoterminal:ethereum:0x" \o ToString(i), 1 >> ]
    \o [ n \in 1..(MaxInserts + 1) |-> << "kyberswap:ethereum:0xA", n >> ]

\* cache.values().cloned().collect(): the handles in an order the HashMap
\* chooses; two of the orders it can choose.
ValueOrders(S) ==
    LET one == SelectSeq(HandleOrder, LAMBDA h : h \in S)
    IN  { one, Reverse(one) }

\* The records behind a list of handles.
RecordsOf(handles) == [ i \in 1..Len(handles) |-> heap[handles[i]] ]

\* A chunk that takes both ends of its range of 50.
ChunkAtInclusive(pools, pos) ==
    SubSeq(pools, pos + 1, Min(pos + CHUNK + 1, Len(pools)))

\* The chunk of pools.chunks(50) that starts after the first pos handles.
ChunkAt(pools, pos) == SubSeq(pools, pos + 1, Min(pos + CHUNK, Len(pools)))

\* A loop over the chunks that goes on to the next chunk after a send that
\* failed.
AfterChunkGoOn(w, n, ok) == [w EXCEPT !.pos = @ + n]

\* The loop after a chunk of n records was given to sender.send: `Ok(Ok(_))
\* => {}` goes on, `_ => return` ends handle_socket, and the snapshot with
\* it.
AfterChunk(w, n, ok) ==
    IF ok THEN [w EXCEPT !.pos = @ + n]
    ELSE [w EXCEPT !.pc = "closed", !.pools = << >>, !.pos = 0]

\* The handles of the snapshot a connection holds.
Handles(w) == { w.pools[i] : i \in DOMAIN w.pools }

\* The records the snapshots of two connections keep alive.
Snapshots(w1, w2) == [ h \in Handles(w1) \cup Handles(w2) |-> heap[h] ]

\* What sender.send(..).await can do when nothing bounds it: it returns Ok,
\* it returns an error, or it stays pending for as long as the client does
\* not take the data.
SendOutcomes == { "ok", "err", "pending" }

\* What receiver.next() can return: a Close frame, None at the end of the
\* stream, a Pong frame, and a Text frame that holds {"type":"ping"}.
Inbound == { "close", "end", "pong", "text_ping" }

\* Line 373: the snapshot of the tick.
UpdateArm(w, order) ==
    [w EXCEPT !.pc = "chunks", !.pools = order, !.pos = 0, !.ticks = @ + 1]

\* Lines 376-393 for the next chunk: it is sent under the timeout of 5 s;
\* ok is Ok(Ok(_)), anything else is an error of the send or the timeout.
ChunkArm(w, ok) ==
    LET chunk == ChunkAt(w.pools, w.pos)
        msg == [type |-> "pool_update", tick |-> w.ticks,
                data |-> RecordsOf(chunk), ok |-> ok]
    IN  AfterChunk([w EXCEPT !.sent = Append(@, msg)], Len(chunk), ok)

\* An alert send whose error ends handle_socket.
AlertsArmFatal(w, alerts, outcome) ==
    IF alerts = << >> THEN [w EXCEPT !.pc = "end"]
    ELSE [w EXCEPT !.pc = CASE outcome = "ok" -> "end"
                            [] outcome = "err" -> "closed"
                            [] OTHER -> "blocked",
                   !.pools = IF outcome = "err" THEN << >> ELSE @,
                   !.pos = IF outcome = "err" THEN 0 ELSE @,
                   !.sent = Append(@, [type |-> "arb_alert", tick |-> w.ticks,
                                       data |-> alerts, ok |-> outcome = "ok"])]

\* Lines 399-405: the alerts, if there are any, are sent in one message by
\* `let _ = sender.send(..).await`: no timeout bounds the send and its
\* result is dropped. While the send is pending the loop is in this arm
\* ("blocked").
AlertsArm(w, alerts, outcome) ==
    IF alerts = << >> THEN [w EXCEPT !.pc = "end"]
    ELSE [w EXCEPT !.pc = IF outcome = "pending" THEN "blocked" ELSE "end",
                   !.sent = Append(@, [type |-> "arb_alert", tick |-> w.ticks,
                                       data |-> alerts, ok |-> outcome = "ok"])]

\* Line 406: the arm ends, the snapshot is dropped and the loop selects
\* again.
EndArm(w) == [w EXCEPT !.pc = "idle", !.pools = << >>, !.pos = 0]

\* A heartbeat that goes on after a ping that failed.
HeartbeatArmTolerant(w, outcome) ==
    [w EXCEPT !.pc = IF outcome = "pending" THEN "blocked" ELSE "idle",
              !.pings = @ + 1,
              !.sent = Append(@, [type |-> "ping", tick |-> w.ticks,
                                  data |-> << >>, ok |-> outcome = "ok"])]

\* Lines 408-412: one Ping is sent, with no timeout; an error of the send
\* ends handle_socket.
HeartbeatArm(w, outcome) ==
    [w EXCEPT !.pc = CASE outcome = "ok" -> "idle"
                       [] outcome = "err" -> "closed"
                       [] OTHER -> "blocked",
              !.pings = @ + 1,
              !.sent = Append(@, [type |-> "ping", tick |-> w.ticks,
                                  data |-> << >>, ok |-> outcome = "ok"])]

\* A receiver arm that goes on after the end of the inbound stream.
ReceiverArmPastEnd(w, msg) ==
    [w EXCEPT !.pc = IF msg = "close" THEN "closed" ELSE @,
              !.rcvd = Append(@, msg)]

\* A receiver arm that returns on every frame but a Pong.
ReceiverArmStrict(w, msg) ==
    [w EXCEPT !.pc = IF msg = "pong" THEN @ ELSE "closed",
              !.rcvd = Append(@, msg)]

\* Lines 414-420: a Close frame or the end of the stream ends
\* handle_socket, a Pong and anything else (`_ => {}`) is dropped.
ReceiverArm(w, msg) ==
    [w EXCEPT !.pc = IF msg \in {"close", "end"} THEN "closed" ELSE @,
              !.rcvd = Append(@, msg)]

\* The arm of update_ticker up to get_all, for the connection w (wn is w
\* after the step, other the other connection), followed for max ticks.
UpdateTick(w, wn, other, max) ==
    /\ w.pc = "idle"
    /\ w.ticks < max
    /\ \E order \in ValueOrders({ cache[k] : k \in DOMAIN cache }) :
          wn = UpdateArm(w, order)
    /\ held' = Snapshots(wn, other)
    /\ heap' = Collect(cache, heap, held')
    /\ UNCHANGED <<collectorVars, cache, clock, last_cleanup, cleaner, latest,
                   inserts, flt, det, upbit, stats>>

\* The send of the next chunk.
SendChunk(w, wn, other) ==
    /\ w.pc = "chunks"
    /\ w.pos < Len(w.pools)
    /\ \E ok \in BOOLEAN : wn = ChunkArm(w, ok)
    /\ held' = Snapshots(wn, other)
    /\ heap' = Collect(cache, heap, held')
    /\ UNCHANGED <<collectorVars, cache, clock, last_cleanup, cleaner, latest,
                   inserts, flt, det, upbit, stats>>

\* Lines 395-405: after the last chunk the CEX prices are read (and not
\* used), the detector is run over the snapshot and the alerts are sent.
Alerts(w, wn) ==
    /\ w.pc = "chunks"
    /\ w.pos = Len(w.pools)
    /\ \E r \in detect_dex_dex(RecordsOf(w.pools), det.threshold, clock) :
       \E outcome \in SendOutcomes :
          wn = AlertsArm(w, r.alerts, outcome)
    /\ UNCHANGED <<collectorVars, cacheVars, flt, det, upbit, stats>>

\* The end of the arm of update_ticker.
TickEnd(w, wn, other) ==
    /\ w.pc = "end"
    /\ wn = EndArm(w)
    /\ held' = Snapshots(wn, other)
    /\ heap' = Collect(cache, heap, held')
    /\ UNCHANGED <<collectorVars, cache, clock, last_cleanup, cleaner, latest,
                   inserts, flt, det, upbit, stats>>

\* The arm of heartbeat_ticker, followed for MaxPings ticks.
Heartbeat(w, wn) ==
    /\ w.pc = "idle"
    /\ w.pings < MaxPings
    /\ \E outcome \in SendOutcomes : wn = HeartbeatArm(w, outcome)
    /\ UNCHANGED <<collectorVars, cacheVars, flt, det, upbit, stats>>

\* The arm of receiver.next(), followed for MaxFrames items.
Receive(w, wn, msg) ==
    /\ w.pc = "idle"
    /\ Len(w.rcvd) < MaxFrames
    /\ wn = ReceiverArm(w, msg)
    /\ UNCHANGED <<collectorVars, cacheVars, flt, det, upbit, stats>>

\* The loop of the connection ws.
WsUpdateTick == UpdateTick(ws, ws', peer, MaxWsTicks) /\ UNCHANGED peer

WsSendChunk == SendChunk(ws, ws', peer) /\ UNCHANGED peer

\* The detector run over what the cache holds when the chunks were sent,
\* not over the snapshot.
WsAlertsFresh ==
    /\ ws.pc = "chunks"
    /\ ws.pos = Len(ws.pools)
    /\ \E order \in ValueOrders({ cache[k] : k \in DOMAIN cache }) :
       \E r \in detect_dex_dex(RecordsOf(order), det.threshold, clock) :
       \E outcome \in SendOutcomes :
          ws' = AlertsArm(ws, r.alerts, outcome)
    /\ UNCHANGED <<collectorVars, cacheVars, flt, det, upbit, stats, peer>>

WsAlerts == Alerts(ws, ws') /\ UNCHANGED peer

WsTickEnd == TickEnd(ws, ws', peer) /\ UNCHANGED peer

\* A heartbeat whose failure ends the other connection's loop too.
WsHeartbeatShared ==
    /\ Heartbeat(ws, ws')
    /\ peer' = IF ws'.pc = "closed" THEN [peer EXCEPT !.pc = "closed"] ELSE peer

WsHeartbeat == Heartbeat(ws, ws') /\ UNCHANGED peer

WsReceive(msg) == Receive(ws, ws', msg) /\ UNCHANGED peer

\* The loop of the connection peer.
PeerUpdateTick == UpdateTick(peer, peer', ws, MaxPeerTicks) /\ UNCHANGED ws

PeerSendChunk == SendChunk(peer, peer', ws) /\ UNCHANGED ws

PeerAlerts == Alerts(peer, peer') /\ UNCHANGED ws

PeerTickEnd == TickEnd(peer, peer', ws) /\ UNCHANGED ws

PeerHeartbeat == Heartbeat(peer, peer') /\ UNCHANGED ws

PeerReceive(msg) == Receive(peer, peer', msg) /\ UNCHANGED ws

-----------------------------------------------------------------------------
(* The specifications *)

\* FilterConfig of config.toml
FilterConfigs == { [min_lp |-> 10000, min_volume |-> 5000] }

SymbolNames == { "ETH", "BTC" }

\* No call of the filter, no call of the detector, no connection.
NoFlt == [pool |-> "none", config |-> "none", result |-> << >>]
NoDet == [pools |-> << >>, cex |-> << >>, threshold |-> 0,
          out |-> [op |-> "none", alerts |-> << >>, divisors |-> {},
                   again |-> FALSE]]
NoWs == [pc |-> "closed", pools |-> << >>, pos |-> 0, sent |-> << >>,
         ticks |-> 0, pings |-> 0, rcvd |-> << >>]

\* No price from Upbit yet; CollectorStats::default().
NoUpbit == << >>
NoStats == [total_requests |-> 0, successful |-> 0, failed |-> 0,
            pools_collected |-> 0]

InitApp ==
    /\ flt = NoFlt
    /\ det = NoDet
    /\ ws = NoWs
    /\ upbit = NoUpbit
    /\ stats = NoStats
    /\ peer = NoWs

InitCache ==
    /\ cache = << >>
    /\ heap = << >>
    /\ held = << >>
    /\ clock = 0
    /\ last_cleanup = 0
    /\ cleaner = [ p \in {"ticker"} |-> [pc |-> "idle", now |-> 0] ]
    /\ latest = << >>
    /\ inserts = 0

\* One caller (the background cycle of main.rs) over a short symbol list.
Init ==
    /\ sources = SubSeq(ActiveSources, 1, Min(MaxSources, Len(ActiveSources)))
    /\ symbols \in SeqsUpTo(SymbolNames, MaxSymbols)
    /\ filter \in FilterConfigs
    /\ permits = PERMITS
    /\ call = [ c \in {"cycle"} |-> IdleCall ]
    /\ task = [ c \in {"cycle"} |-> << >> ]
    /\ net \in {"up", "down"}
    /\ tokens = NoTokens
    /\ fetched = NoFetch
    /\ InitCache
    /\ InitApp

Next ==
    \/ \E c \in Callers : StartCall(c)
    \/ \E c \in Callers, i \in 1..Len(symbols) : Acquire(c, i)
    \/ \E c \in Callers, i \in 1..Len(symbols) : FetchComplete(c, i)
    \/ \E c \in Callers : Return(c)

Spec == Init /\ [][Next]_vars

\* The three call sites of the collection (the background cycle of main.rs,
\* GET /pools of api/rest.rs and the ticker of api/websocket.rs) calling the
\* same collector at the same time over four symbols, while no provider
\* answers: twelve futures compete for the ten permits.
LoadCallers == { "cycle", "rest", "ws" }
LoadSymbols == << "ETH", "BTC", "XRP", "SOL" >>

InitLoad ==
    /\ sources = SubSeq(ActiveSources, 1, 1)
    /\ symbols = LoadSymbols
    /\ filter \in FilterConfigs
    /\ permits = PERMITS
    /\ call = [ c \in LoadCallers |-> IdleCall ]
    /\ task = [ c \in LoadCallers |-> << >> ]
    /\ net = "down"
    /\ tokens = NoTokens
    /\ fetched = NoFetch
    /\ InitCache
    /\ InitApp

SpecLoad == InitLoad /\ [][Next]_vars

\* One caller over one or two symbols and the four sources that share the
\* TokenCache: the token resolver and the three aggregators after it.
TokenSymbols == { << "ETH" >>, << "ETH", "BTC" >> }

InitTokens ==
    /\ sources = SubSeq(ActiveSources, 3, 6)
    /\ symbols \in TokenSymbols
    /\ filter \in FilterConfigs
    /\ permits = PERMITS
    /\ call = [ c \in {"cycle"} |-> IdleCall ]
    /\ task = [ c \in {"cycle"} |-> << >> ]
    /\ net \in {"up", "down"}
    /\ tokens = NoTokens
    /\ fetched = NoFetch
    /\ InitCache
    /\ InitApp

SpecTokens == InitTokens /\ [][Next]_vars

\* The collector at the moment the background cycle is about to call while
\* the calls of the two other call sites are under way, each with its four
\* fetches in flight: eight of the ten permits are held, and the four
\* futures of the third call compete for the two that are left.  No
\* provider answers.
InitBusy ==
    /\ sources = SubSeq(ActiveSources, 1, 1)
    /\ symbols = LoadSymbols
    /\ filter \in FilterConfigs
    /\ call = [ c \in LoadCallers |->
                  IF c = "cycle" THEN IdleCall
                  ELSE [IdleCall EXCEPT !.pc = "running"] ]
    /\ task = [ c \in LoadCallers |->
                  IF c = "cycle" THEN << >>
                  ELSE [ i \in 1..Len(LoadSymbols) |->
                           [pc |-> "fetch", src |-> 1, attempt |-> 1] ] ]
    /\ permits = PERMITS - 2 * Len(LoadSymbols)
    /\ net = "down"
    /\ tokens = NoTokens
    /\ fetched = NoFetch
    /\ InitCache
    /\ InitApp

\* These calls under a fair runtime: the tasks of the collector keep being
\* polled, so that as long as some step of a call can be taken (a fetch in
\* flight ends, with the answer or after 10 s with the timeout; a waiting
\* future is handed a free permit; a call whose futures are done returns),
\* one is taken.  That a caller makes its call at all is not assumed.
FairCalls ==
    WF_vars(\E c \in LoadCallers :
               \/ \E i \in 1..Len(LoadSymbols) : Acquire(c, i)
               \/ \E i \in 1..Len(LoadSymbols) : FetchComplete(c, i)
               \/ Return(c))

SpecBusy == InitBusy /\ [][Next]_vars /\ FairCalls

\* The cache under the collector's inserts, a reader, the clock and the
\* cleanup ticker of main.rs.
InitCacheSpec ==
    /\ sources = ActiveSources
    /\ symbols = << "ETH" >>
    /\ filter \in FilterConfigs
    /\ permits = PERMITS
    /\ call = [ c \in {"cycle"} |-> IdleCall ]
    /\ task = [ c \in {"cycle"} |-> << >> ]
    /\ net = "up"
    /\ tokens = NoTokens
    /\ fetched = NoFetch
    /\ InitCache
    /\ InitApp

NextCache ==
    \/ \E pool \in CachePools(clock) : Insert(pool)
    \/ \E pool \in CachePools(clock) : ReadGet(PoolKey(pool))
    \/ ReadGetAll
    \/ Tick
    \/ \E p \in DOMAIN cleaner : CleanupBegin(p)
    \/ \E p \in DOMAIN cleaner : CleanupScan(p)

SpecCache == InitCacheSpec /\ [][NextCache]_vars

\* The cache under the collector's inserts, the clock and two tasks that
\* call cleanup_if_needed on the shared cache at the same time.
PurgeCallers == { "ticker", "caller" }

InitPurge ==
    /\ sources = ActiveSources
    /\ symbols = << "ETH" >>
    /\ filter \in FilterConfigs
    /\ permits = PERMITS
    /\ call = [ c \in {"cycle"} |-> IdleCall ]
    /\ task = [ c \in {"cycle"} |-> << >> ]
    /\ net = "up"
    /\ tokens = NoTokens
    /\ fetched = NoFetch
    /\ cache = << >>
    /\ heap = << >>
    /\ held = << >>
    /\ clock = 0
    /\ last_cleanup = 0
    /\ cleaner = [ p \in PurgeCallers |-> [pc |-> "idle", now |-> 0] ]
    /\ latest = << >>
    /\ inserts = 0
    /\ InitApp

NextPurge ==
    \/ \E pool \in CachePools(clock) : Insert(pool)
    \/ Tick
    \/ \E p \in DOMAIN cleaner : CleanupBegin(p)
    \/ \E p \in DOMAIN cleaner : CleanupScan(p)

SpecPurge == InitPurge /\ [][NextPurge]_vars

-----------------------------------------------------------------------------
(* The pool filter applied to one record *)

\* (price_usd, lp_reserve_usd, volume_24h) of the records the filter is
\* applied to: prices of nothing and something, liquidity and volume at,
\* below and above the thresholds and the 2 % rule's 5000.
FilterQuotes ==
    { <<pr, lp, vol>> : pr \in {0, 1}, lp \in {0, 40, 4999, 5000, 9999, 10000, 50000},
                        vol \in {0, 4999, 5000, 20000} }

\* The thresholds of PoolFilter::new
FilterThresholds ==
    { [min_lp |-> l, min_volume |-> v] : l \in {0, 10000}, v \in {0, 5000} }

InitFilter ==
    /\ sources = ActiveSources
    /\ symbols = << "ETH" >>
    /\ filter \in FilterConfigs
    /\ permits = PERMITS
    /\ call = [ c \in {"cycle"} |-> IdleCall ]
    /\ task = [ c \in {"cycle"} |-> << >> ]
    /\ net = "up"
    /\ tokens = NoTokens
    /\ fetched = NoFetch
    /\ InitCache
    /\ flt \in { [pool |-> PoolData("ETH", "ethereum", "uniswap", "0xA", q,
                                     "geckoterminal", 0),
                   config |-> f, result |-> << >>] :
                    q \in FilterQuotes, f \in FilterThresholds }
    /\ det = NoDet
    /\ ws = NoWs
    /\ upbit = NoUpbit
    /\ stats = NoStats
    /\ peer = NoWs

\* filter.is_valid(&pool)
Validate ==
    /\ flt.result = << >>
    /\ flt' = [flt EXCEPT !.result = << is_valid(flt.config, flt.pool) >>]
    /\ UNCHANGED <<collectorVars, cacheVars, det, upbit, stats, peer, ws>>

NextFilter == Validate

SpecFilter == InitFilter /\ [][NextFilter]_vars

-----------------------------------------------------------------------------
(* The detector applied to a snapshot *)

DetSymbols == { "ETH", "BTC" }
\* pool prices: none, the 95 below the CEX's 100, and 3000 and 3090, which
\* are 3.0 % apart
DetPrices == { 0, 95, 3000, 3090 }
\* two ETH pools and one BTC pool
DetAddresses(sym) == IF sym = "ETH" THEN { "0xA", "0xB" } ELSE { "0xA" }
\* the threshold in thousandths: negative, zero, 0.03 and 0.031
DetThresholds == { -10, 0, 30, 31 }

\* The records of a snapshot, as PoolData::new builds them.
DetPools ==
    UNION { { PoolData(sym, "ethereum", "uniswap", a, <<pr, 0, 0>>,
                       "geckoterminal", 0) :
                  a \in DetAddresses(sym), pr \in DetPrices } : sym \in DetSymbols }

\* The snapshots the detector is applied to: every list of up to MaxDetPools
\* records, and the lists of two ETH and two BTC pools that have a price
\* above 1000, in which two symbols can give an alert.
DetSnapshots ==
    SeqsUpTo(DetPools, MaxDetPools)
    \cup { <<e1, b1, e2, b2>> :
             e1 \in { q \in DetPools : q.symbol = "ETH" /\ q.price_usd > 1000 },
             e2 \in { q \in DetPools : q.symbol = "ETH" /\ q.price_usd > 1000 },
             b1 \in { q \in DetPools : q.symbol = "BTC" /\ q.price_usd > 1000 },
             b2 \in { q \in DetPools : q.symbol = "BTC" /\ q.price_usd > 1000 } }

\* UpbitClient::get_all_prices: at most one CexPrice per symbol.
DetCexLists ==
    { << >> }
    \cup { << [symbol |-> "ETH", price_usd |-> c] >> : c \in {0, 100, 3090} }
    \cup { << [symbol |-> "BTC", price_usd |-> 3000],
              [symbol |-> "ETH", price_usd |-> 3090] >> }

InitDetect ==
    /\ sources = ActiveSources
    /\ symbols = << "ETH" >>
    /\ filter \in FilterConfigs
    /\ permits = PERMITS
    /\ call = [ c \in {"cycle"} |-> IdleCall ]
    /\ task = [ c \in {"cycle"} |-> << >> ]
    /\ net = "up"
    /\ tokens = NoTokens
    /\ fetched = NoFetch
    /\ InitCache
    /\ flt = NoFlt
    /\ det \in { [NoDet EXCEPT !.pools = ps, !.cex = cx, !.threshold = thr] :
                    ps \in DetSnapshots, cx \in DetCexLists,
                    thr \in DetThresholds }
    /\ ws = NoWs
    /\ upbit = NoUpbit
    /\ stats = NoStats
    /\ peer = NoWs

\* A call that sorts the snapshot by price in place before it looks for the
\* minimum and the maximum.
DetectDexDexSorting ==
    /\ \E r \in detect_dex_dex(det.pools, det.threshold, clock) :
          det' = [det EXCEPT !.out = [op |-> "dex_dex", alerts |-> r.alerts,
                                      divisors |-> r.divisors,
                                      again |-> det.out.op = "dex_dex"],
                             !.pools = SortSeq(det.pools,
                                 LAMBDA x, y : x.price_usd < y.price_usd)]
    /\ UNCHANGED <<collectorVars, cacheVars, flt, upbit, stats, peer, ws>>

\* state.detector.detect_dex_dex(&pools)
DetectDexDex ==
    /\ \E r \in detect_dex_dex(det.pools, det.threshold, clock) :
          det' = [det EXCEPT !.out = [op |-> "dex_dex", alerts |-> r.alerts,
                                      divisors |-> r.divisors,
                                      again |-> det.out.op = "dex_dex"]]
    /\ UNCHANGED <<collectorVars, cacheVars, flt, upbit, stats, peer, ws>>

\* state.detector.detect_dex_cex(&pools, &cex_prices)
DetectDexCex ==
    /\ LET r == detect_dex_cex(det.pools, det.cex, det.threshold, clock)
       IN  det' = [det EXCEPT !.out = [op |-> "dex_cex", alerts |-> r.alerts,
                                       divisors |-> r.divisors,
                                       again |-> det.out.op = "dex_cex"]]
    /\ UNCHANGED <<collectorVars, cacheVars, flt, upbit, stats, peer, ws>>

\* Time passes between two calls of the detector.
DetectLater ==
    /\ clock < TickSecs
    /\ Tick

NextDetect ==
    \/ DetectDexDex
    \/ DetectDexCex
    \/ DetectLater

SpecDetect == InitDetect /\ [][NextDetect]_vars

-----------------------------------------------------------------------------
(* A connection served from a filled cache *)

\* The sizes of the cache a connection is served from: empty, one pool, one
\* full chunk, one pool more, and two chunks and a pool.
WsSizes == { 0, 1, CHUNK, CHUNK + 1, MaxSnapshot }

\* The i-th pool a collection left in the cache: ETH pools at 3000, the
\* first of them at `first`.
WsPool(i, first) ==
    PoolData("ETH", "ethereum", "uniswap", "0x" \o ToString(i),
             << IF i = 1 THEN first ELSE 3000, 0, 0 >>, "geckoterminal", 0)

\* The pool the collector writes while the connection is served.
WsWrites(now) ==
    { p \in CachePools(now) : p.chain = "ethereum" /\ p.source = "kyberswap" }

\* The cache holds n pools when the connection is opened; the history of
\* the inserts starts there.
InitWs ==
    /\ sources = ActiveSources
    /\ symbols = << "ETH" >>
    /\ filter \in FilterConfigs
    /\ permits = PERMITS
    /\ call = [ c \in {"cycle"} |-> IdleCall ]
    /\ task = [ c \in {"cycle"} |-> << >> ]
    /\ net = "up"
    /\ tokens = NoTokens
    /\ fetched = NoFetch
    /\ held = << >>
    /\ \E n \in WsSizes, first \in {3000, 3090} :
          /\ cache = [ k \in { PoolKey(WsPool(i, first)) : i \in 1..n } |-> <<k, 1>> ]
          /\ heap = [ h \in { <<PoolKey(WsPool(i, first)), 1>> : i \in 1..n } |->
                        CHOOSE q \in { WsPool(i, first) : i \in 1..n } :
                            PoolKey(q) = h[1] ]
    /\ clock = 0
    /\ last_cleanup = 0
    /\ cleaner = [ p \in {"ticker"} |-> [pc |-> "idle", now |-> 0] ]
    /\ latest = << >>
    /\ inserts = 0
    /\ flt = NoFlt
    /\ det = [NoDet EXCEPT !.threshold = 30]
    /\ ws = [NoWs EXCEPT !.pc = "idle"]
    /\ upbit = NoUpbit
    /\ stats = NoStats
    /\ peer = NoWs

NextWs ==
    \/ WsUpdateTick
    \/ WsSendChunk
    \/ WsAlerts
    \/ WsTickEnd
    \/ WsHeartbeat
    \/ \E msg \in {"close", "end"} : WsReceive(msg)
    \/ \E pool \in WsWrites(clock) : Insert(pool)

SpecWs == InitWs /\ [][NextWs]_vars

-----------------------------------------------------------------------------
(* Connections served while the cache is written *)

\* The sizes of the cache the connections are served from.
ConnSizes == { 0, 1, 2 }

\* The price Upbit gave before the connections were opened.
ConnUpbit == [ sym \in {"ETH"} |-> [symbol |-> "ETH", price_usd |-> 3000] ]

\* The cache holds n pools, the first of them 3 % above the others and
\* above the price of Upbit, and the connection ws is in its select.
ConnOpened ==
    /\ sources = ActiveSources
    /\ symbols = << "ETH" >>
    /\ filter \in FilterConfigs
    /\ permits = PERMITS
    /\ call = [ c \in {"cycle"} |-> IdleCall ]
    /\ task = [ c \in {"cycle"} |-> << >> ]
    /\ net = "up"
    /\ tokens = NoTokens
    /\ fetched = NoFetch
    /\ held = << >>
    /\ \E n \in ConnSizes :
          /\ cache = [ k \in { PoolKey(WsPool(i, 3090)) : i \in 1..n } |-> <<k, 1>> ]
          /\ heap = [ h \in { <<PoolKey(WsPool(i, 3090)), 1>> : i \in 1..n } |->
                        CHOOSE q \in { WsPool(i, 3090) : i \in 1..n } :
                            PoolKey(q) = h[1] ]
    /\ clock = 0
    /\ last_cleanup = 0
    /\ cleaner = [ p \in {"ticker"} |-> [pc |-> "idle", now |-> 0] ]
    /\ latest = << >>
    /\ inserts = 0
    /\ flt = NoFlt
    /\ det = [NoDet EXCEPT !.threshold = 30]
    /\ upbit = ConnUpbit
    /\ stats = NoStats
    /\ ws = [NoWs EXCEPT !.pc = "idle"]

\* One connection.
InitConn == ConnOpened /\ peer = NoWs

\* The collector writes a pool while the connections are served.
ConnWrite ==
    /\ inserts < MaxConnWrites
    /\ \E pool \in WsWrites(clock) : Insert(pool)

NextConn ==
    \/ WsUpdateTick
    \/ WsSendChunk
    \/ WsAlerts
    \/ WsTickEnd
    \/ WsHeartbeat
    \/ \E msg \in Inbound : WsReceive(msg)
    \/ ConnWrite

SpecConn == InitConn /\ [][NextConn]_vars

\* Two connections, each followed for MaxPeerTicks update ticks and up to
\* the Close frame of its client.
InitPeers == ConnOpened /\ peer = [NoWs EXCEPT !.pc = "idle"]

NextPeers ==
    \/ ws.ticks < MaxPeerTicks /\ WsUpdateTick
    \/ WsSendChunk
    \/ WsAlerts
    \/ WsTickEnd
    \/ WsHeartbeat
    \/ WsReceive("close")
    \/ PeerUpdateTick
    \/ PeerSendChunk
    \/ PeerAlerts
    \/ PeerTickEnd
    \/ PeerHeartbeat
    \/ PeerReceive("close")
    \/ ConnWrite

SpecPeers == InitPeers /\ [][NextPeers]_vars

-----------------------------------------------------------------------------
(* The locks of the cache *)

\* The cache under three tasks that call it at any time, with the lock of
\* the map and the lock of last_cleanup taken and released in steps: the
\* cleanup ticker, the collection cycle, which inserts and here purges as
\* well, and a handler that reads.
LockCallers == { "ticker", "cycle", "client" }

CallsOf(p) ==
    CASE p = "ticker" -> { "cleanup_if_needed" }
      [] p = "cycle"  -> { "insert", "cleanup_if_needed" }
      [] OTHER        -> { "get", "get_all", "len" }

InitLocks ==
    /\ sources = ActiveSources
    /\ symbols = << "ETH" >>
    /\ filter \in FilterConfigs
    /\ permits = PERMITS
    /\ call = [ c \in {"cycle"} |-> IdleCall ]
    /\ task = [ c \in {"cycle"} |-> << >> ]
    /\ net = "up"
    /\ tokens = NoTokens
    /\ fetched = NoFetch
    /\ cache = << >>
    /\ heap = << >>
    /\ held = << >>
    /\ clock = 0
    /\ last_cleanup = 0
    /\ cleaner = [ p \in LockCallers |-> [pc |-> "idle", now |-> 0] ]
    /\ latest = << >>
    /\ inserts = 0
    /\ InitApp

NextLocks ==
    \/ \E p \in DOMAIN cleaner :
          \E op \in CallsOf(p) \ {"cleanup_if_needed"} : CacheCallBegin(p, op)
    \/ \E p \in DOMAIN cleaner : CacheCallEnd(p, WsWrites(clock))
    \/ \E p \in DOMAIN cleaner :
          "cleanup_if_needed" \in CallsOf(p) /\ CleanupBegin(p)
    \/ \E p \in DOMAIN cleaner : CleanupScan(p)
    \/ Tick

\* The locks are fair: a task inside get, insert, get_all or len finishes,
\* and a purge that waits for the lock of the map gets it though readers
\* come and go (a waiting writer keeps new readers out).
FairLocks ==
    \A p \in LockCallers :
        /\ WF_vars(CacheCallEnd(p, WsWrites(clock)))
        /\ SF_vars(CleanupScan(p))

SpecLocks == InitLocks /\ [][NextLocks]_vars /\ FairLocks

-----------------------------------------------------------------------------
(* Claims about the collector *)

Running == { c \in Callers : call[c].pc = "running" }

\* The steps collect_progressive can take for caller c.
CallStep(c) ==
    \/ \E i \in 1..Len(symbols) : Acquire(c, i)
    \/ \E i \in 1..Len(symbols) : FetchComplete(c, i)
    \/ Return(c)

\* The number of (source, symbol) pairs of a call.
Pairs == Len(symbols) * Len(sources)

\* Future i of caller c ends a fetch in this step.
FetchEnds(c, i) ==
    /\ i \in DOMAIN task[c]
    /\ i \in DOMAIN task'[c]
    /\ task[c][i].pc = "fetch"
    /\ task'[c][i] # task[c][i]

\* C1: at every moment the number of fetches in flight from the collector
\* is at most the number of permits of its semaphore (10), also when
\* several collection calls run on the same collector at the same time.
C1_InFlightWithinPermits == Cardinality(InFlight) <= PERMITS

\* C1, its case: three calls run, every permit is taken by a fetch in
\* flight, and a future that was polled waits for a permit.
C1_Witness ==
    /\ Cardinality(Running) = 3
    /\ Cardinality(InFlight) = PERMITS
    /\ permits = 0
    /\ \E c \in Running : \E i \in DOMAIN task[c] :
          task[c][i].pc = "acquire" /\ InBuffer(c, i)

\* C2: when a collection call has returned, successful + failed is the
\* number of symbols times the number of sources; and every record a
\* successful fetch returned that passed the filter is in the cache under
\* its composite key, unless a later record of the same key replaced it
\* (the last record inserted per key is the one the cache holds).
C2_Accounting ==
    /\ \A c \in Callers :
          call[c].pc = "returned" =>
              call[c].successful + call[c].failed = Pairs
    /\ \A t \in DOMAIN latest : CacheGet(PoolKey(latest[t])) = latest[t]

\* C2, its case: a call over two symbols returned with fetches that failed
\* and fetches that succeeded, one of whose records replaced another.
C2_Witness ==
    /\ \E c \in Callers :
          /\ call[c].pc = "returned"
          /\ call[c].successful >= 1
          /\ call[c].failed >= 1
    /\ Len(symbols) = 2
    /\ inserts > Cardinality(DOMAIN latest)
    /\ Cardinality(DOMAIN latest) = 2

C4_OneSourceAtATime ==
    \A c \in Callers : \A i, j \in DOMAIN task[c] :
        (task[c][i].pc = "fetch" /\ task[c][j].pc = "fetch")
            => task[c][i].src = task[c][j].src

\* C4 as amended: within one call the sources are queried one at a time and
\* in list order for each symbol: a symbol's fetch to the first source
\* starts when its future has its permit, its fetch to the next source
\* starts when its fetch to the current one ended, and its future ends after
\* the last source.  (Fetches of different symbols, to the same or to
\* different sources, can be in flight together.)
C4_PerSymbolOrder ==
    [][ \A c \in Callers : \A i \in 1..Len(symbols) :
          (i \in DOMAIN task[c] /\ i \in DOMAIN task'[c]
                                /\ task'[c][i] # task[c][i]) =>
            \/ /\ task[c][i].pc = "acquire"
               /\ task'[c][i].pc = "fetch"
               /\ task'[c][i].src = 1
            \/ /\ task[c][i].pc = "fetch"
               /\ task'[c][i].pc = "fetch"
               /\ task'[c][i].src = task[c][i].src + 1
            \/ /\ task[c][i].pc = "fetch"
               /\ task'[c][i].pc = "done"
               /\ task[c][i].src = Len(sources) ]_vars

\* C4, its case: two symbols of one call are in flight to two different
\* sources.
C4_Witness ==
    \E c \in Callers : \E i, j \in DOMAIN task[c] :
        /\ task[c][i].pc = "fetch"
        /\ task[c][j].pc = "fetch"
        /\ task[c][i].src = 1
        /\ task[c][j].src = 2

\* C5: a collection call never fails or aborts: while it runs it can always
\* take a step, and when every fetch of it failed (error or timeout) it
\* returns a result with successful = 0, failed = symbols x sources and no
\* pool collected; a fetch that fails leaves the cache as it was.
C5_AllFailed ==
    /\ [](\A c \in Callers :
            /\ call[c].pc = "running" => ENABLED CallStep(c)
            /\ (call[c].pc = "returned" /\ call[c].successful = 0) =>
                  /\ call[c].failed = Pairs
                  /\ call[c].total_pools = 0
                  /\ cache = << >>)
    /\ [][ \A c \in Callers :
            call'[c].successful = call[c].successful =>
                (cache' = cache /\ heap' = heap) ]_vars

\* C5, its case: a call over two symbols returned, every fetch having
\* failed, while the network was up.
C5_Witness ==
    /\ net = "up"
    /\ Len(symbols) = 2
    /\ \E c \in Callers :
          /\ call[c].pc = "returned"
          /\ call[c].successful = 0
          /\ call[c].failed = 4

-----------------------------------------------------------------------------
(* Claims about the cache *)

\* The time (on the monotonic clock) at which a record was built and
\* inserted.
InsertedAt(pool) == pool.timestamp - Epoch0

\* The age of a stored record.
StoredAge(pool) == clock - InsertedAt(pool)

\* This step is an insert.
IsInsert == inserts' = inserts + 1

\* This step is the scan of a cleanup.
IsScan == \E p \in DOMAIN cleaner :
              cleaner[p].pc = "scan" /\ cleaner'[p].pc = "idle"

\* The record this insert step passed to insert is the last one recorded for
\* identity t.
InsertedIs(t) ==
    /\ t \in DOMAIN latest'
    /\ \A t2 \in DOMAIN latest' \ {t} :
          t2 \in DOMAIN latest /\ latest'[t2] = latest[t2]
    /\ \A t2 \in DOMAIN latest : t2 \in DOMAIN latest'

C7_Upsert ==
    [][ IsInsert =>
          \E t \in DOMAIN latest' :
            LET p == latest'[t]
                k == PoolKey(p)
            IN  /\ InsertedIs(t)
                /\ k \in DOMAIN cache'
                /\ heap'[cache'[k]] = p
                /\ p \in { heap'[cache'[x]] : x \in DOMAIN cache' }
                /\ (k \in DOMAIN cache /\ heap[cache[k]] # p) =>
                      heap[cache[k]] \notin
                          { heap'[cache'[x]] : x \in DOMAIN cache' }
                /\ k \in DOMAIN cache =>
                      Cardinality(DOMAIN cache') = Cardinality(DOMAIN cache)
                /\ k \notin DOMAIN cache =>
                      Cardinality(DOMAIN cache') = Cardinality(DOMAIN cache) + 1
                /\ \A k2 \in DOMAIN cache \ {k} :
                      /\ k2 \in DOMAIN cache'
                      /\ cache'[k2] = cache[k2]
                      /\ heap'[cache'[k2]] = heap[cache[k2]] ]_vars

\* C7, its case: three inserts were made, two of them under the same key at
\* different times, and the cache holds two entries, one of them the later
\* record of that key.
C7_Witness ==
    /\ inserts = 3
    /\ Cardinality(DOMAIN cache) = 2
    /\ \E k \in DOMAIN cache : heap[cache[k]].timestamp > Epoch0
    /\ \E k \in DOMAIN cache : heap[cache[k]].timestamp = Epoch0

\* C8: the entries of the cache are one per (source, chain, pool_address):
\* two stored records of the same three fields are one entry, and the insert
\* of a record leaves every stored record that differs from it in source,
\* chain or pool_address in its own entry, unchanged.
C8_CompositeKey ==
    /\ [](\A k1, k2 \in DOMAIN cache :
            Identity(heap[cache[k1]]) = Identity(heap[cache[k2]]) => k1 = k2)
    /\ [][ IsInsert =>
            \E t \in DOMAIN latest' :
              /\ InsertedIs(t)
              /\ \E k \in DOMAIN cache' :
                    /\ heap'[cache'[k]] = latest'[t]
                    /\ \A k2 \in DOMAIN cache :
                          Identity(heap[cache[k2]]) # t =>
                            /\ k2 # k
                            /\ k2 \in DOMAIN cache'
                            /\ heap'[cache'[k2]] = heap[cache[k2]] ]_vars

\* C8, its case: the cache holds three records of the same pool_address, of
\* two sources and two chains.
C8_Witness ==
    \E k1, k2, k3 \in DOMAIN cache :
        LET p1 == heap[cache[k1]]
            p2 == heap[cache[k2]]
            p3 == heap[cache[k3]]
        IN  /\ p1.pool_address = p2.pool_address
            /\ p1.pool_address = p3.pool_address
            /\ p1.source # p2.source
            /\ p1.chain = p2.chain
            /\ p1.source = p3.source
            /\ p1.chain # p3.chain

\* C9: a reader never sees a torn record.  A handle a reader holds is alive
\* and shows the record the reader saw when it got it, whatever was inserted
\* since; and the record a read returns is one that was passed whole to an
\* insert.
C9_NoTornRecord ==
    /\ [](\A h \in DOMAIN held : h \in DOMAIN heap /\ heap[h] = held[h])
    /\ [][ held' # held =>
            \A h \in DOMAIN held' :
              \E t \in DOMAIN latest : held'[h] = latest[t] ]_vars

\* C9, its case: a reader holds the handle of a record whose key was
\* inserted again since: the key is bound to another handle, of another
\* record.
C9_Witness ==
    \E h \in DOMAIN held :
        LET k == PoolKey(held[h])
        IN  /\ k \in DOMAIN cache
            /\ cache[k] # h
            /\ heap[cache[k]] # held[h]
            /\ heap[h] = held[h]

\* C10: the scan of the purge removes every stored entry whose age is at
\* least the TTL and keeps every younger one, so that right after a scan no
\* stored entry is older than the TTL.
C10_ScanRemovesExpired ==
    [][ IsScan =>
          /\ \A k \in DOMAIN cache :
                /\ StoredAge(heap[cache[k]]) >= TTL_SECS => k \notin DOMAIN cache'
                /\ StoredAge(heap[cache[k]]) < TTL_SECS => k \in DOMAIN cache'
          /\ \A k \in DOMAIN cache' :
                clock' - InsertedAt(heap'[cache'[k]]) <= TTL_SECS ]_vars

-----------------------------------------------------------------------------
(* Claims about the pool filter *)

\* The rule on liquidity and volume alone.
LiquidityRule(f, pool) ==
    IF pool.lp_reserve_usd >= f.min_lp
    THEN pool.volume_24h >= f.min_volume
    ELSE pool.lp_reserve_usd * 2 >= 100 * 100 /\ pool.volume_24h >= f.min_volume

\* C12: is_valid returns exactly: volume_24h >= min_volume when liquidity >=
\* min_liquidity, otherwise (liquidity * 0.02 >= 100 and volume_24h >=
\* min_volume), whatever the record's price is.
C12_LiquidityRuleOnly ==
    flt.result # << >> => flt.result[1] = LiquidityRule(flt.config, flt.pool)

-----------------------------------------------------------------------------
(* Claims about the purge *)

\* The callers of cleanup_if_needed that are in the scan.
Scanning == { p \in DOMAIN cleaner : cleaner[p].pc = "scan" }

\* C11: cleanup_if_needed makes the scan only if at least 60 s have passed
\* since the last scan (or since the cache was created).  A call that comes
\* sooner starts no scan; nothing but a scan that is due changes the
\* recorded time of the last scan, and nothing but an insert or such a scan
\* changes what the cache holds; with several callers at a time at most one
\* is in the scan, and two scans are at least 60 s apart.
C11_ScanOnlyWhenDue ==
    /\ [](Cardinality(Scanning) <= 1)
    /\ [](\A p \in Scanning : cleaner[p].now - last_cleanup >= CLEANUP_INTERVAL)
    /\ [][ (last_cleanup' # last_cleanup \/ (cache' # cache /\ ~IsInsert)) =>
              /\ IsScan
              /\ last_cleanup' - last_cleanup >= CLEANUP_INTERVAL ]_vars
    /\ [][ clock - last_cleanup < CLEANUP_INTERVAL =>
              /\ \A p \in DOMAIN cleaner : cleaner'[p].pc = "scan" => p \in Scanning
              /\ Scanning = {} => (last_cleanup' = last_cleanup
                                     /\ (cache' # cache => IsInsert)) ]_vars

\* C11, its case: a second scan is under way, 60 s after the first one, while
\* the other caller is not in the scan.
C11_Witness ==
    \E p \in DOMAIN cleaner :
        /\ cleaner[p].pc = "scan"
        /\ last_cleanup >= CLEANUP_INTERVAL
        /\ cleaner[p].now >= last_cleanup + CLEANUP_INTERVAL
        /\ \E q \in DOMAIN cleaner : q # p /\ cleaner[q].pc = "idle"

-----------------------------------------------------------------------------
(* Claims about the detector *)

\* The last call of the detector was detect_dex_dex / detect_dex_cex.
DexDexDone == det.out.op = "dex_dex"
DexCexDone == det.out.op = "dex_cex"

\* The prices of the pools of a symbol in the snapshot, and how many pools
\* the symbol has.
PricesOf(symbol) ==
    { det.pools[i].price_usd : i \in { j \in DOMAIN det.pools :
                                          det.pools[j].symbol = symbol } }
PoolCount(symbol) ==
    Cardinality({ i \in DOMAIN det.pools : det.pools[i].symbol = symbol })
MinPrice(symbol) == CHOOSE x \in PricesOf(symbol) : \A y \in PricesOf(symbol) : x <= y
MaxPrice(symbol) == CHOOSE x \in PricesOf(symbol) : \A y \in PricesOf(symbol) : x >= y

\* The alerts of the last call that are about a symbol.
AlertsOf(symbol) ==
    { i \in DOMAIN det.out.alerts : det.out.alerts[i].symbol = symbol }

\* C13: detect_dex_dex emits, for each symbol that has at least two pools
\* and a minimum price > 0, exactly one DexToDex alert when
\* (max - min) / min >= threshold (equality included) and none when it is
\* below; the alert has low_price = the minimum and high_price = the maximum
\* price of the symbol's pools.
C13_DexDexAlerts ==
    DexDexDone =>
        \A sym \in SymbolsOf(det.pools) :
            (PoolCount(sym) >= 2 /\ MinPrice(sym) > 0) =>
                IF (MaxPrice(sym) - MinPrice(sym)) * 1000 >= det.threshold * MinPrice(sym)
                THEN /\ Cardinality(AlertsOf(sym)) = 1
                     /\ \A i \in AlertsOf(sym) :
                           /\ det.out.alerts[i].arb_type = "DexToDex"
                           /\ det.out.alerts[i].low_price = MinPrice(sym)
                           /\ det.out.alerts[i].high_price = MaxPrice(sym)
                ELSE AlertsOf(sym) = {}

\* C13, its case: two ETH pools at 3000 and 3090 gave one alert at the
\* threshold 0.03, which their spread equals.
C13_Witness ==
    /\ DexDexDone
    /\ PricesOf("ETH") = {3000, 3090}
    /\ det.threshold = 30
    /\ Cardinality(AlertsOf("ETH")) = 1

\* C14: a symbol that has exactly one pool in the snapshot never yields a
\* DexToDex alert, whatever the threshold (zero and negative ones too) and
\* the price of the pool.
C14_SinglePoolNoAlert ==
    DexDexDone =>
        \A sym \in SymbolsOf(det.pools) : PoolCount(sym) = 1 => AlertsOf(sym) = {}

\* C14, its case: detect_dex_dex has run with a negative threshold over a
\* snapshot in which a symbol has one pool, with a price, and another symbol
\* two pools that gave an alert.
C14_Witness ==
    /\ DexDexDone
    /\ det.threshold < 0
    /\ PoolCount("BTC") = 1
    /\ PricesOf("BTC") = {3000}
    /\ PoolCount("ETH") = 2
    /\ Cardinality(AlertsOf("ETH")) = 1

\* C15: detect_dex_dex skips a symbol whose minimum price is <= 0: no
\* DexToDex alert for it, whatever the prices of its other pools; and
\* neither detection ever divides by a price that is <= 0.
C15_NoPriceSkipped ==
    /\ DexDexDone =>
          \A sym \in SymbolsOf(det.pools) : MinPrice(sym) <= 0 => AlertsOf(sym) = {}
    /\ \A d \in det.out.divisors : d > 0

\* C15, its case: detect_dex_dex has run with a threshold of zero over a
\* snapshot in which a symbol has a pool without a price and a pool with
\* one.
C15_Witness ==
    /\ DexDexDone
    /\ det.threshold = 0
    /\ PricesOf("ETH") = {0, 3090}
    /\ AlertsOf("ETH") = {}

\* The CEX price of a symbol, if the CEX list has one.
CexPricesOf(symbol) ==
    { det.cex[i].price_usd : i \in { j \in DOMAIN det.cex :
                                        det.cex[j].symbol = symbol } }
CexPriceOf(symbol) == CHOOSE x \in CexPricesOf(symbol) : TRUE

\* Pool i of the snapshot has a CEX price for its symbol, both prices are
\* > 0 and (high - low) / low >= threshold.
Qualifies(i) ==
    LET pool == det.pools[i]
    IN  /\ CexPricesOf(pool.symbol) # {}
        /\ pool.price_usd > 0
        /\ CexPriceOf(pool.symbol) > 0
        /\ LET low == Min(pool.price_usd, CexPriceOf(pool.symbol))
               high == Max(pool.price_usd, CexPriceOf(pool.symbol))
           IN  (high - low) * 1000 >= det.threshold * low

\* The two sides pool i's alert has: the DEX price with the pool's label and
\* the CEX price with the exchange's label.
ExpectedSides(i) ==
    { << det.pools[i].price_usd,
         det.pools[i].dex \o ":" \o det.pools[i].pool_address >>,
      << CexPriceOf(det.pools[i].symbol), "upbit" >> }

\* The two sides of an alert.
SidesOf(a) == { <<a.low_price, a.low_source>>, <<a.high_price, a.high_source>> }

\* C16: detect_dex_cex emits exactly one DexToCex alert for each pool whose
\* symbol has a CEX price, with both prices > 0 and (high - low) / low >=
\* threshold, and no alert for any other pool; in the alert the DEX price
\* has the label "{dex}:{pool_address}", the CEX price the exchange's label,
\* and the lower of the two is the low side.
C16_DexCexAlerts ==
    DexCexDone =>
        /\ Len(det.out.alerts) =
               Cardinality({ i \in DOMAIN det.pools : Qualifies(i) })
        /\ \A j \in DOMAIN det.out.alerts :
              /\ det.out.alerts[j].arb_type = "DexToCex"
              /\ det.out.alerts[j].low_price <= det.out.alerts[j].high_price
        /\ \A i \in DOMAIN det.pools : Qualifies(i) =>
              Cardinality({ j \in DOMAIN det.out.alerts :
                              /\ det.out.alerts[j].symbol = det.pools[i].symbol
                              /\ SidesOf(det.out.alerts[j]) = ExpectedSides(i) })
              = Cardinality({ k \in DOMAIN det.pools :
                                /\ Qualifies(k)
                                /\ det.pools[k].symbol = det.pools[i].symbol
                                /\ ExpectedSides(k) = ExpectedSides(i) })

\* C16, its case: a DEX price of 95 against a CEX price of 100 at threshold
\* 0.03 gave an alert with low_price 95 under the DEX label and high_price
\* 100 under the CEX label, while a pool of 3000 gave one with the CEX low.
C16_Witness ==
    /\ DexCexDone
    /\ det.threshold = 30
    /\ \E j \in DOMAIN det.out.alerts :
          /\ det.out.alerts[j].low_price = 95
          /\ det.out.alerts[j].low_source = "uniswap:0xA"
          /\ det.out.alerts[j].high_price = 100
          /\ det.out.alerts[j].high_source = "upbit"
    /\ \E j \in DOMAIN det.out.alerts :
          /\ det.out.alerts[j].low_price = 100
          /\ det.out.alerts[j].low_source = "upbit"
          /\ det.out.alerts[j].high_price = 3000

\* The alerts of a call but for the time they were made at: symbol, kind,
\* prices, labels and diff_pct.
AlertCores(out) ==
    { [ symbol |-> out.alerts[j].symbol, arb_type |-> out.alerts[j].arb_type,
        low_price |-> out.alerts[j].low_price,
        low_source |-> out.alerts[j].low_source,
        high_price |-> out.alerts[j].high_price,
        high_source |-> out.alerts[j].high_source,
        diff_pct |-> out.alerts[j].diff_pct ] : j \in DOMAIN out.alerts }

\* C17: the two detections are pure and read-only: a call changes neither
\* the pool snapshot, nor the CEX prices, nor the threshold, nor the cache,
\* and a call of the operation that was called last returns the same set
\* of alerts (symbol, kind, prices, labels, diff_pct) as that call did.
C17_PureReadOnly ==
    [][ det' # det =>
          /\ det'.pools = det.pools
          /\ det'.cex = det.cex
          /\ det'.threshold = det.threshold
          /\ UNCHANGED <<cache, heap, held, latest, inserts>>
          /\ det'.out.again =>
                /\ AlertCores(det'.out) = AlertCores(det.out)
                /\ Len(det'.out.alerts) = Len(det.out.alerts) ]_vars

\* C17, its case: detect_dex_dex was called again, later, and returned two
\* alerts, of two symbols.
C17_Witness ==
    /\ DexDexDone
    /\ det.out.again
    /\ Len(det.out.alerts) = 2
    /\ det.out.alerts[1].symbol # det.out.alerts[2].symbol
    /\ det.out.alerts[1].timestamp > Epoch0

-----------------------------------------------------------------------------
(* Claims about the WebSocket connection *)

\* The positions in ws.sent of the messages of a kind that tick t sent.
SentOf(t, type) ==
    { j \in DOMAIN ws.sent : ws.sent[j].tick = t /\ ws.sent[j].type = type }

\* The records of the pool-update messages of tick t, in the order they
\* were sent in.
RECURSIVE ChunkRecords(_, _)
ChunkRecords(t, j) ==
    IF j > Len(ws.sent) THEN << >>
    ELSE (IF ws.sent[j].tick = t /\ ws.sent[j].type = "pool_update"
          THEN ws.sent[j].data ELSE << >>) \o ChunkRecords(t, j + 1)

\* The update tick t ran to its end.
TickEnded(t) == t < ws.ticks \/ (t = ws.ticks /\ ws.pc \in {"end", "idle"})

\* C18: on each update tick the loop takes one snapshot of the cache (every
\* handle of the cache, once) and sends it in pool-update messages of at
\* most 50 records each; the chunks of the tick, in the order they were sent
\* in, are the records of the snapshot sent so far, each once, and all of
\* them when the last chunk was sent; an empty snapshot gives no pool-update
\* message.
C18_ChunkedSnapshot ==
    /\ [](\A j \in DOMAIN ws.sent : ws.sent[j].type = "pool_update" =>
             (Len(ws.sent[j].data) >= 1 /\ Len(ws.sent[j].data) <= CHUNK))
    /\ [](ws.pc \in {"chunks", "end"} =>
             /\ ChunkRecords(ws.ticks, 1) = SubSeq(RecordsOf(ws.pools), 1, ws.pos)
             /\ ws.pc = "end" => ws.pos = Len(ws.pools)
             /\ Len(ws.pools) = 0 => SentOf(ws.ticks, "pool_update") = {})
    /\ [][ ws'.ticks # ws.ticks =>
              /\ { ws'.pools[i] : i \in DOMAIN ws'.pools } = { cache[k] : k \in DOMAIN cache }
              /\ Len(ws'.pools) = Cardinality(DOMAIN cache)
              /\ ws'.sent = ws.sent ]_vars

\* C18, its case: a snapshot of more than two chunks was sent in three
\* pool-update messages and the tick is at its end.
C18_Witness ==
    /\ ws.pc = "end"
    /\ Len(ws.pools) > 2 * CHUNK
    /\ Cardinality(SentOf(ws.ticks, "pool_update")) = 3

\* C19: when the send of a pool chunk fails or runs into the timeout, the
\* loop ends at once: no message follows the chunk on the connection (not
\* the other chunks, not the alerts of the tick, not the chunk again), and
\* once the loop has ended nothing is sent any more.
C19_FailedChunkEndsLoop ==
    /\ [](\A j \in DOMAIN ws.sent :
             (ws.sent[j].type = "pool_update" /\ ~ws.sent[j].ok) =>
                 (j = Len(ws.sent) /\ ws.pc = "closed"))
    /\ [][ ws.pc = "closed" => ws' = ws ]_vars

\* C19, its case: the first chunk of a snapshot of more than two chunks was
\* sent, the second one failed, and the loop has ended.
C19_Witness ==
    /\ ws.pc = "closed"
    /\ Cardinality(DOMAIN cache) > 2 * CHUNK
    /\ Len(ws.sent) = 2
    /\ ws.sent[1].type = "pool_update" /\ ws.sent[1].ok
    /\ ws.sent[2].type = "pool_update" /\ ~ws.sent[2].ok

\* C20: in an update tick the alert message is sent only after every pool
\* chunk of the tick was sent with success; a tick sends at most one alert
\* message, and none when the detection found no alert; and the detection
\* is run over the snapshot whose chunks were sent, whatever was written to
\* the cache since the snapshot was taken.
C20_AlertsAfterChunks ==
    /\ \A j \in DOMAIN ws.sent : ws.sent[j].type = "arb_alert" =>
          /\ \A i \in SentOf(ws.sent[j].tick, "pool_update") : i < j /\ ws.sent[i].ok
          /\ SentOf(ws.sent[j].tick, "arb_alert") = {j}
          /\ ws.sent[j].data # << >>
          /\ \E r \in detect_dex_dex(ChunkRecords(ws.sent[j].tick, 1),
                                      det.threshold, 0) :
                AlertCores(r) = AlertCores([alerts |-> ws.sent[j].data])
    /\ \A t \in 1..ws.ticks :
          (TickEnded(t) /\ SentOf(t, "arb_alert") = {}) =>
              \A r \in detect_dex_dex(ChunkRecords(t, 1), det.threshold, 0) :
                  r.alerts = << >>
    /\ ws.pc = "chunks" => SentOf(ws.ticks, "arb_alert") = {}

\* C20, its case: a snapshot of more than one chunk was sent, a pool was
\* written to the cache after the snapshot was taken, and the alert message
\* of the tick was sent.
C20_Witness ==
    /\ ws.pc = "end"
    /\ Len(ws.pools) > CHUNK
    /\ \E k \in DOMAIN cache : cache[k] \notin DOMAIN held
    /\ SentOf(ws.ticks, "arb_alert") # {}

\* C21: the alert message of an update tick holds what the arbitrage query
\* returns for the pool snapshot of the tick and the CEX prices of the
\* tick: every DEX-DEX alert of the snapshot and every DEX-CEX alert of the
\* snapshot against the prices; and no alert message is sent exactly when
\* the query returns no alert.
C21_AlertsAsQueried ==
    [][ (ws.pc = "chunks" /\ ws'.pc # "chunks" /\ ws.pos = Len(ws.pools)) =>
           \E cex_prices \in get_all_prices(upbit) :
           \E alerts \in get_arbitrage(RecordsOf(ws.pools), cex_prices,
                                       det.threshold, clock) :
              IF alerts = << >> THEN ws'.sent = ws.sent
              ELSE /\ Len(ws'.sent) = Len(ws.sent) + 1
                   /\ ws'.sent[Len(ws'.sent)].type = "arb_alert"
                   /\ ws'.sent[Len(ws'.sent)].data = alerts ]_vars

-----------------------------------------------------------------------------
(* Claims about the collector's counters *)

\* C29: when a collection call has returned, the shared counters of the
\* collector have grown by what the call counted: `successful` by the
\* fetches that succeeded, `failed` by those that failed and
\* `pools_collected` by the records inserted.
C29_StatsReflectOutcomes ==
    call["cycle"].pc = "returned" =>
        /\ stats.successful = call["cycle"].successful
        /\ stats.failed = call["cycle"].failed
        /\ stats.pools_collected = call["cycle"].total_pools

\* C30: a collection call over an empty list of symbols has no future and
\* takes no permit, so that it fetches nothing; the counters of its result
\* are all 0; and the cache and the shared counters stay as they were.
C30_EmptyCallNoOp ==
    symbols = << >> =>
        /\ \A c \in Callers :
              /\ task[c] = << >>
              /\ call[c].successful = 0 /\ call[c].failed = 0
              /\ call[c].total_pools = 0
        /\ permits = PERMITS
        /\ cache = << >> /\ heap = << >> /\ inserts = 0 /\ latest = << >>
        /\ stats = NoStats

\* C30, its case: the call over the empty list has returned.
C30_Witness ==
    /\ symbols = << >>
    /\ call["cycle"].pc = "returned"

-----------------------------------------------------------------------------
(* Claims about the WebSocket connection, continued *)

\* The send of the j-th message of ws.sent returned an error (or, for a
\* chunk, ran into its timeout): it is not Ok, and it is not the send the
\* loop is still waiting for.
SendFailed(j) ==
    /\ ~ws.sent[j].ok
    /\ ~(j = Len(ws.sent) /\ ws.pc = "blocked")

\* The inbound item that ended the loop, if one did.
ClosedByClient ==
    /\ ws.rcvd # << >>
    /\ ws.rcvd[Len(ws.rcvd)] \in {"close", "end"}

\* C22: an alert message whose send failed does not end the loop: as long
\* as nothing was sent after it, the loop has either not returned or has
\* returned because the client closed the connection, and the arm of the
\* tick ran to its end.
C22_AlertFailureTolerated ==
    \A j \in DOMAIN ws.sent :
        (ws.sent[j].type = "arb_alert" /\ SendFailed(j) /\ j = Len(ws.sent)) =>
            /\ ws.pc \in {"end", "idle", "chunks", "closed"}
            /\ ws.pc = "closed" => ClosedByClient
            /\ ws.pc = "chunks" => ws.ticks > ws.sent[j].tick

\* C22, its case: the alert message of the first tick failed, and after it
\* the loop sent a ping, took a Pong and sent the chunk of the second tick.
C22_Witness ==
    \E j \in DOMAIN ws.sent :
        /\ ws.sent[j].type = "arb_alert" /\ ~ws.sent[j].ok /\ ws.sent[j].tick = 1
        /\ \E i \in DOMAIN ws.sent : i > j /\ ws.sent[i].type = "ping"
        /\ \E i \in DOMAIN ws.sent :
              i > j /\ ws.sent[i].type = "pool_update" /\ ws.sent[i].tick = 2
        /\ ws.rcvd = << "pong" >>
        /\ ws.pc = "chunks"

\* The positions in ws.sent of the pings.
Pings == { j \in DOMAIN ws.sent : ws.sent[j].type = "ping" }

\* C23: every heartbeat tick sends one ping and nothing else; a ping whose
\* send failed is the last message of the connection and the loop has
\* returned; after a ping that was sent the loop is where it was, with the
\* snapshot, the counters and the inbound items it had.
C23_Heartbeat ==
    /\ [](Cardinality(Pings) = ws.pings)
    /\ [](\A j \in Pings :
             SendFailed(j) => (j = Len(ws.sent) /\ ws.pc = "closed"))
    /\ [][ ws'.pings # ws.pings =>
              /\ ws'.pings = ws.pings + 1
              /\ Len(ws'.sent) = Len(ws.sent) + 1
              /\ SubSeq(ws'.sent, 1, Len(ws.sent)) = ws.sent
              /\ ws'.sent[Len(ws'.sent)].type = "ping"
              /\ ws'.sent[Len(ws'.sent)].ok =>
                    ws' = [ws EXCEPT !.sent = ws'.sent, !.pings = ws'.pings] ]_vars

\* C23, its case: after the chunk and the alerts of a tick were sent, the
\* ping failed and the loop has returned.
C23_Witness ==
    /\ ws.pc = "closed"
    /\ Len(ws.sent) = 3
    /\ ws.sent[2].type = "arb_alert" /\ ws.sent[2].ok
    /\ ws.sent[3].type = "ping" /\ ~ws.sent[3].ok

\* C24: a Close frame and the end of the inbound stream end the loop: the
\* item is the last one taken and the loop has returned; a Pong is taken
\* with nothing sent and the loop is where it was.
C24_CloseEndsPongIgnored ==
    /\ [](\A i \in DOMAIN ws.rcvd :
             ws.rcvd[i] \in {"close", "end"} =>
                 (i = Len(ws.rcvd) /\ ws.pc = "closed"))
    /\ [][ ws'.rcvd = Append(ws.rcvd, "pong") =>
              ws' = [ws EXCEPT !.rcvd = ws'.rcvd] ]_vars

\* C24, its case: the loop took a Pong and sent the chunk of a tick, and
\* it returned at the end of the inbound stream.
C24_Witness ==
    /\ ws.rcvd = << "pong", "end" >>
    /\ ws.pc = "closed"
    /\ SentOf(1, "pool_update") # {}

\* C25: a Text frame that holds a message of type ping is answered in the
\* step that takes it: a message of type pong is sent on the connection
\* before the loop selects again.
C25_PingAnswered ==
    [][ ws'.rcvd = Append(ws.rcvd, "text_ping") =>
           /\ Len(ws'.sent) = Len(ws.sent) + 1
           /\ ws'.sent[Len(ws'.sent)].type = "pong" ]_vars

\* C26: the loop is never left waiting without bound for a send of
\* broadcast data: a pool chunk or an alert message that the client does
\* not take runs into a timeout, which ends the loop.
C26_NoUnboundedBroadcastWait ==
    ~(/\ ws.pc = "blocked"
      /\ ws.sent[Len(ws.sent)].type \in {"pool_update", "arb_alert"})

\* C28: the loop has returned only after a send that failed (a chunk whose
\* send returned an error or ran into the timeout, a ping whose send
\* returned an error) or after the client closed the connection (a Close
\* frame, the end of the inbound stream): in every state where it has
\* returned, the last message or the last inbound item is one of these.
C28_OnlySendOrCloseEnds ==
    ws.pc = "closed" =>
        \/ ClosedByClient
        \/ /\ ws.sent # << >>
           /\ ~ws.sent[Len(ws.sent)].ok
           /\ ws.sent[Len(ws.sent)].type \in {"pool_update", "ping"}

\* C28, its case: the loop took a Pong and a Text frame, went through an
\* update tick and a write to the cache, and returned on the ping whose
\* send failed.
C28_Witness ==
    /\ ws.pc = "closed"
    /\ ws.rcvd = << "pong", "text_ping" >>
    /\ inserts = 1
    /\ ws.ticks = 1
    /\ ws.sent[Len(ws.sent)].type = "ping"

-----------------------------------------------------------------------------
(* Claims about two connections *)

\* The cache as its readers see it: the record behind every key.
CacheContents == [ k \in DOMAIN cache |-> heap[cache[k]] ]

\* What is outside the connections: the cache and its bookkeeping, the
\* collector, the filter, the detector, the prices of Upbit.
Outside ==
    << CacheContents, clock, last_cleanup, cleaner, latest, inserts,
       collectorVars, flt, det, upbit, stats >>

\* C27: a step of a connection's loop, the step that ends it included,
\* changes nothing outside the connection: not the cache, not the
\* collector, not the other connection; a write to the cache changes no
\* connection; and once a loop has returned, the other loop and the writes
\* to the cache go on as they would have.
C27_Isolation ==
    /\ [][ ws' # ws => (peer' = peer /\ Outside' = Outside) ]_vars
    /\ [][ peer' # peer => (ws' = ws /\ Outside' = Outside) ]_vars
    /\ [][ Outside' # Outside => (ws' = ws /\ peer' = peer) ]_vars
    /\ [](ws.pc = "closed" =>
             /\ (peer.pc = "idle" /\ peer.ticks < MaxPeerTicks) =>
                    ENABLED PeerUpdateTick
             /\ (peer.pc = "chunks" /\ peer.pos < Len(peer.pools)) =>
                    ENABLED PeerSendChunk
             /\ inserts < MaxConnWrites => ENABLED ConnWrite)

\* C27, its case: the loop of ws returned on a chunk whose send failed
\* before the pool was written that the other connection has in the chunk
\* it sent, and that connection is at the end of its tick.
C27_Witness ==
    /\ ws.pc = "closed"
    /\ Len(ws.sent) = 1 /\ ~ws.sent[1].ok /\ ws.sent[1].type = "pool_update"
    /\ inserts = 1
    /\ peer.pc = "end"
    /\ \E j \in DOMAIN peer.sent :
          /\ peer.sent[j].type = "pool_update" /\ peer.sent[j].ok
          /\ Len(peer.sent[j].data) = Len(ws.sent[1].data) + 1

-----------------------------------------------------------------------------
(* Claims about what a fetch leaves behind *)

\* C31: a fetch that returns an empty list, or a list whose records the
\* filter rejects one and all, counts as one success: `successful` of the
\* call grows by one, `failed` and `total` stay, and nothing is inserted into
\* the cache.
C31_EmptyIsSuccess ==
    [][ \A c \in Callers : \A i \in 1..Len(symbols) :
          (FetchEnds(c, i) /\ fetched'.kind = "ok" /\ fetched'.valid = 0) =>
              /\ call'[c].successful = call[c].successful + 1
              /\ call'[c].failed = call[c].failed
              /\ call'[c].total_pools = call[c].total_pools
              /\ cache' = cache
              /\ heap' = heap
              /\ inserts' = inserts ]_vars

\* C31, its case: two fetches of a call ended without a usable record and
\* both count as successes, the last of them with records that the filter
\* rejected one and all; nothing failed and nothing was inserted.
C31_Witness ==
    /\ fetched.kind = "ok" /\ fetched.pools > 0 /\ fetched.valid = 0
    /\ call["cycle"].successful = 2
    /\ call["cycle"].failed = 0
    /\ call["cycle"].total_pools = 0
    /\ inserts = 0
    /\ cache = << >>

\* C32: every entry the collector wrote into the cache passed
\* PoolFilter::is_valid when it was written, and is stored under the key
\* "source:chain:pool_address" made of its own fields: each key of the cache
\* is the composite key of its value, and no record the filter rejects was
\* ever passed to insert.
C32_OnlyValidUnderOwnKey ==
    /\ \A k \in DOMAIN cache :
          /\ k = PoolKey(heap[cache[k]])
          /\ is_valid(filter, heap[cache[k]])
    /\ \A t \in DOMAIN latest : is_valid(filter, latest[t])

\* C32, its case: a fetch returned a record that passed the filter and one
\* that did not, and the cache holds the first only.
C32_Witness ==
    /\ fetched.kind = "ok"
    /\ fetched.valid = 1
    /\ fetched.pools = 2
    /\ Cardinality(DOMAIN cache) = 1
    /\ inserts = 1

-----------------------------------------------------------------------------
(* Claims about the alerts of the detector, continued *)

\* The pools of the snapshot that have a symbol and a label, and the alerts
\* of the last call that have the symbol and the label on one side.
PoolsLabelled(symbol, label) ==
    { i \in DOMAIN det.pools :
        det.pools[i].symbol = symbol /\ DexLabel(det.pools[i]) = label }
AlertsLabelled(symbol, label) ==
    { j \in AlertsOf(symbol) :
        label \in { det.out.alerts[j].low_source, det.out.alerts[j].high_source } }

\* C33: every alert of either detection has 0 < low_price <= high_price,
\* diff_pct = (high_price - low_price) / low_price * 100 and
\* diff_pct >= threshold * 100 (the threshold is in thousandths, diff_pct a
\* fraction <<numerator, denominator>>); one pass of detect_dex_dex emits at
\* most one alert per symbol, one pass of detect_dex_cex at most one alert
\* per pool.
C33_AlertsWellFormed ==
    /\ \A j \in DOMAIN det.out.alerts :
          LET a == det.out.alerts[j]
          IN  /\ 0 < a.low_price
              /\ a.low_price <= a.high_price
              /\ a.diff_pct[2] > 0
              /\ a.diff_pct[1] * a.low_price
                    = (a.high_price - a.low_price) * 100 * a.diff_pct[2]
              /\ a.diff_pct[1] * 10 >= det.threshold * a.diff_pct[2]
              /\ a.arb_type = IF DexDexDone THEN "DexToDex" ELSE "DexToCex"
    /\ DexDexDone => \A y \in DetSymbols : Cardinality(AlertsOf(y)) <= 1
    /\ DexCexDone =>
          \A y \in DetSymbols : \A q \in DetPools :
              Cardinality(AlertsLabelled(y, DexLabel(q)))
                  <= Cardinality(PoolsLabelled(y, DexLabel(q)))

\* C33, its case: a pass of detect_dex_cex over two pools of one symbol
\* gave two alerts, one per pool, one of them with a spread that is exactly
\* the threshold of 3 %, the other with a larger one.
C33_Witness ==
    /\ DexCexDone
    /\ det.threshold = 30
    /\ Len(det.pools) = 2
    /\ Len(det.out.alerts) = 2
    /\ \E j \in DOMAIN det.out.alerts :
          det.out.alerts[j].diff_pct[1] * 10
              = det.threshold * det.out.alerts[j].diff_pct[2]
    /\ \E j \in DOMAIN det.out.alerts :
          det.out.alerts[j].diff_pct[1] * 10
              > det.threshold * det.out.alerts[j].diff_pct[2]

\* The members of the snapshot that an alert's side can come from: the pools
\* of the alert's symbol that have the side's price and label.
SideMembers(a, price, label) ==
    { i \in DOMAIN det.pools :
        /\ det.pools[i].symbol = a.symbol
        /\ det.pools[i].price_usd = price
        /\ DexLabel(det.pools[i]) = label }

-----------------------------------------------------------------------------
(* Claims about the progress of a collection call *)

\* C35: under a fair runtime every collection call over a finite symbol
\* list returns, also while no source answers (each fetch ends with its 10 s
\* timeout): no call is under way for ever, and no future waits for a
\* permit for ever.
C35_EveryCallReturns ==
    \A c \in LoadCallers :
        /\ []<>(call[c].pc # "running")
        /\ \A i \in 1..Len(LoadSymbols) :
              []<>(~(i \in DOMAIN task[c] /\ task[c][i].pc = "acquire"))

\* C35, its case: no source answers and the two other calls still hold
\* eight permits; two futures of the third call ended with the timeout, and
\* the two that had to wait for a permit meanwhile got the permits these
\* released and are fetching.
C35_Witness ==
    /\ net = "down"
    /\ \A c \in LoadCallers \ {"cycle"} :
          \A i \in DOMAIN task[c] : task[c][i].pc = "fetch"
    /\ call["cycle"].pc = "running"
    /\ call["cycle"].failed = 2
    /\ Cardinality({ i \in DOMAIN task["cycle"] : task["cycle"][i].pc = "done" }) = 2
    /\ Cardinality({ i \in DOMAIN task["cycle"] : task["cycle"][i].pc = "fetch" }) = 2
    /\ permits = 0

\* C36: the permits of the collector's semaphore are conserved: in every
\* state the permits held by futures plus the permits available are the 10
\* of the semaphore; a future gives its permit back when it ends, whether
\* its fetches succeeded, failed or timed out, so that when no call is under
\* way all permits are available.
C36_PermitsConserved ==
    /\ permits + Cardinality(InFlight) = PERMITS
    /\ permits \in 0..PERMITS
    /\ Running = {} => permits = PERMITS

\* C36, its case: a call over two symbols returned; fetches of it
\* succeeded, others failed, the last one timed out, and all permits are
\* available again.
C36_Witness ==
    /\ call["cycle"].pc = "returned"
    /\ Len(symbols) = 2
    /\ call["cycle"].successful > 0
    /\ call["cycle"].failed > 1
    /\ fetched.kind = "timeout"
    /\ permits = PERMITS

-----------------------------------------------------------------------------
(* Claims about the locks of the cache *)

\* The tasks that are inside an operation of the cache, and the step that
\* lets task p leave the operation it is in.
Inside == { p \in DOMAIN cleaner : cleaner[p].pc # "idle" }
Leaves(p) == CacheCallEnd(p, WsWrites(clock)) \/ CleanupScan(p)

\* The tasks that wait for a lock that task q holds.
WaitsFor(p, q) ==
    \/ /\ cleaner[p].pc = "scan"
       /\ ReadsMap(q) \/ WritesMap(q)
    \/ /\ ThenTakes(cleaner[p].pc) = "last_cleanup"
       /\ HoldsLastCleanup(q)

\* No task waits for a lock held by a task that waits for it, and a task
\* inside an operation can leave it, or waits only for tasks that can leave
\* theirs; one task at a time holds the lock of last_cleanup, and a writer
\* of the map excludes every other task.
LocksInOrder ==
    /\ \A p \in Inside :
          \/ ENABLED Leaves(p)
          \/ /\ \E q \in Inside : WaitsFor(p, q)
             /\ \A q \in Inside : WaitsFor(p, q) => ENABLED Leaves(q)
    /\ \A p, q \in Inside : ~(WaitsFor(p, q) /\ WaitsFor(q, p))
    /\ Cardinality({ p \in Inside : HoldsLastCleanup(p) }) <= 1
    /\ \A p, q \in Inside : WritesMap(p) /\ p # q => ~ReadsMap(q) /\ ~WritesMap(q)

\* C37: no interleaving of concurrent get, insert, get_all, len and
\* cleanup_if_needed calls deadlocks, several purges at a time included.
\* The purge takes the lock of last_cleanup and then the lock of the map,
\* and no task that holds the lock of the map waits for the lock of
\* last_cleanup; under fair locks every call returns.
C37_NoDeadlock ==
    /\ []LocksInOrder
    /\ \A p \in LockCallers : []<>(cleaner[p].pc = "idle")

\* C37, its case: two tasks are in cleanup_if_needed at a time when a
\* scan is due: the ticker holds the lock of last_cleanup and waits for the
\* lock of the map, which a reader holds over a filled cache; the purge of
\* the other task has to wait for the ticker's, and so has its insert for
\* the reader.
C37_Witness ==
    /\ cleaner["ticker"].pc = "scan"
    /\ cleaner["client"].pc = "get_all"
    /\ cleaner["cycle"].pc = "idle"
    /\ ~ENABLED CleanupBegin("cycle")
    /\ ~ENABLED CacheCallBegin("cycle", "insert")
    /\ ~ENABLED CleanupScan("ticker")
    /\ ENABLED CacheCallEnd("client", WsWrites(clock))
    /\ cache # << >>
    /\ inserts < MaxInserts
    /\ last_cleanup > 0

-----------------------------------------------------------------------------
(* Claims about the token resolver and the sources after it *)

\* The fetch in flight of future i of caller c goes to a source that looks
\* the token's address up in the TokenCache.
FetchesDirect(c, i) ==
    /\ i \in DOMAIN task[c]
    /\ task[c][i].pc = "fetch"
    /\ sources[task[c][i].src] \in DirectSources

-----------------------------------------------------------------------------
(* Claims about the result of a call *)

\* C39: `total` of the result is the number of records that passed the
\* filter and were inserted during the call, one per insert also when
\* several inserts hit the same key; it is not the number of requests and
\* does not depend on `successful` and `failed`.
C39_TotalCountsInserts ==
    /\ call["cycle"].total_pools = inserts
    /\ call["cycle"].pc = "idle" => inserts = 0

\* C39, its case: a call of four requests returned; three of them failed,
\* the one that succeeded returned two records that passed the filter and
\* have the same key: total is 2, while the cache holds one entry.
C39_Witness ==
    /\ call["cycle"].pc = "returned"
    /\ Pairs = 4
    /\ call["cycle"].successful = 1
    /\ call["cycle"].failed = 3
    /\ call["cycle"].total_pools = 2
    /\ Cardinality(DOMAIN cache) = 1

====
